---------------------------- MODULE Spec2Model ----------------------------
(***************************************************************************)
(* Roam query blocks: the recursive-descent parser (QueryParser), the      *)
(* Datalog clause generator (DatalogGenerator, buildDatalogQuery) and the  *)
(* executor (QueryExecutor) that runs parse -> generate -> build -> q ->   *)
(* resolveRefs -> count.                                                   *)
(*                                                                         *)
(* Source text is a sequence of one-character strings; positions are the   *)
(* code's 0-based offsets, so the character at offset p is s[p + 1].       *)
(***************************************************************************)
EXTENDS Integers, Sequences, FiniteSets, TLC

VARIABLES
    shape,      \* parser run: how the source text is put together from pieces
    input,      \* parser run: the source text handed to QueryParser
    outcome,    \* parser run: what the entry point returned or threw
    pstage,     \* parser run: "start" before the call, then the entry point called
    gen,        \* the fields refCounter and inputCounter of the one DatalogGenerator
    last,       \* the latest direct call of generate or QueryExecutor.parse
    calls       \* the calls of QueryExecutor.execute, by caller

parserVars == <<shape, input, outcome, pstage>>

executorVars == <<gen, last, calls>>

vars == <<shape, input, outcome, pstage, gen, last, calls>>

-----------------------------------------------------------------------------
(* Characters and strings *)

Min(a, b) == IF a < b THEN a ELSE b

Range(f) == {f[i] : i \in DOMAIN f}

RECURSIVE Flatten(_)
Flatten(ss) == IF ss = <<>> THEN <<>> ELSE Head(ss) \o Flatten(Tail(ss))

\* the characters /\s/ and String.prototype.trim treat as white space
Whitespace == {" ", "\t", "\n", "\r"}

UpperCase == <<"A", "B", "C", "D", "E", "F", "G", "H", "I", "J", "K", "L", "M",
               "N", "O", "P", "Q", "R", "S", "T", "U", "V", "W", "X", "Y", "Z">>
LowerCase == <<"a", "b", "c", "d", "e", "f", "g", "h", "i", "j", "k", "l", "m",
               "n", "o", "p", "q", "r", "s", "t", "u", "v", "w", "x", "y", "z">>

\* /[a-zA-Z]/
IsLetter(c) == c \in Range(UpperCase) \cup Range(LowerCase)

ToLowerChar(c) ==
    IF c \in Range(UpperCase)
    THEN LowerCase[CHOOSE i \in DOMAIN UpperCase : UpperCase[i] = c]
    ELSE c

\* String.prototype.toLowerCase
ToLowerCase(s) == [i \in DOMAIN s |-> ToLowerChar(s[i])]

\* String.prototype.slice(from, to) with 0 <= from
Slice(s, from, to) == SubSeq(s, from + 1, Min(to, Len(s)))

StartsWith(s, prefix) ==
    /\ Len(prefix) <= Len(s)
    /\ SubSeq(s, 1, Len(prefix)) = prefix

RECURSIVE TrimStart(_)
TrimStart(s) ==
    IF s # <<>> /\ Head(s) \in Whitespace THEN TrimStart(Tail(s)) ELSE s

RECURSIVE TrimEnd(_)
TrimEnd(s) ==
    IF s # <<>> /\ s[Len(s)] \in Whitespace
    THEN TrimEnd(SubSeq(s, 1, Len(s) - 1))
    ELSE s

\* String.prototype.trim
Trim(s) == TrimEnd(TrimStart(s))

-----------------------------------------------------------------------------
(* QueryParser: results of the private parse methods.  A method either     *)
(* returns (Ok: the value and the position it left this.pos at) or throws  *)
(* a QueryParseError (Err: the message and the position it carries).       *)

Ok(p, v) == [ok |-> TRUE, pos |-> p, val |-> v]

Err(m, p) == [ok |-> FALSE, kind |-> "QueryParseError", msg |-> m, pos |-> p]

\* this.input[this.pos]; undefined past the end
Undefined == "undefined"

Peek(s, p) == IF p < Len(s) THEN s[p + 1] ELSE Undefined

\* expect advancing without looking at the character
ExpectUnchecked(s, p, c) == Ok(p + 1, c)

Expect(s, p, c) ==
    IF Peek(s, p) # c THEN Err("Expected '" \o c \o "'", p) ELSE Ok(p + 1, c)

RECURSIVE SkipWhitespace(_, _)
SkipWhitespace(s, p) ==
    IF p < Len(s) /\ s[p + 1] \in Whitespace THEN SkipWhitespace(s, p + 1) ELSE p

RECURSIVE ParseIdentifierLoop(_, _, _)
ParseIdentifierLoop(s, p, id) ==
    IF p < Len(s) /\ IsLetter(s[p + 1])
    THEN ParseIdentifierLoop(s, p + 1, Append(id, s[p + 1]))
    ELSE Ok(p, id)

ParseIdentifier(s, p) == ParseIdentifierLoop(s, p, <<>>)

KnownMultiWord ==
    << <<"c", "r", "e", "a", "t", "e", "d", " ", "b", "y">>,
       <<"e", "d", "i", "t", "e", "d", " ", "b", "y">>,
       <<"d", "a", "i", "l", "y", " ", "n", "o", "t", "e", "s">> >>

ParseOperatorName(s, p) ==
    LET remaining == ToLowerCase(Slice(s, p, Len(s)))
        hits == {i \in DOMAIN KnownMultiWord : StartsWith(remaining, KnownMultiWord[i])}
    IN  IF hits # {}
        THEN LET op == KnownMultiWord[CHOOSE i \in hits : \A j \in hits : i <= j]
             IN  Ok(p + Len(op), op)
        ELSE ParseIdentifier(s, p)

\* the while loop shared by parseQuotedString and the quoted branch of parseSearch
RECURSIVE QuotedLoop(_, _, _)
QuotedLoop(s, p, value) ==
    IF p < Len(s) /\ Peek(s, p) # "\""
    THEN IF Peek(s, p) = "\\" /\ Peek(s, p + 1) = "\""
         THEN QuotedLoop(s, p + 2, Append(value, "\""))
         ELSE QuotedLoop(s, p + 1, Append(value, s[p + 1]))
    ELSE Ok(p, value)

ParseQuotedString(s, p) ==
    LET e == Expect(s, p, "\"") IN
    IF ~e.ok THEN e
    ELSE LET r == QuotedLoop(s, e.pos, <<>>) IN
         IF Peek(s, r.pos) = "\"" THEN Ok(r.pos + 1, r.val)
         ELSE Err("Unclosed quoted string", r.pos)

\* a tag scan that ignores nesting: it stops at the first ]]
RECURSIVE ParseTagLoopFlat(_, _, _, _)
ParseTagLoopFlat(s, p, depth, value) ==
    IF ~(p < Len(s) /\ depth > 0) THEN [pos |-> p, depth |-> depth, value |-> value]
    ELSE IF Slice(s, p, p + 2) = <<"]", "]">>
    THEN [pos |-> p + 2, depth |-> 0, value |-> value]
    ELSE ParseTagLoopFlat(s, p + 1, depth, Append(value, s[p + 1]))

RECURSIVE ParseTagLoop(_, _, _, _)
ParseTagLoop(s, p, depth, value) ==
    IF ~(p < Len(s) /\ depth > 0) THEN [pos |-> p, depth |-> depth, value |-> value]
    ELSE IF Slice(s, p, p + 2) = <<"]", "]">>
    THEN IF depth - 1 = 0
         THEN [pos |-> p + 2, depth |-> 0, value |-> value]
         ELSE ParseTagLoop(s, p + 2, depth - 1, value \o <<"]", "]">>)
    ELSE IF Slice(s, p, p + 2) = <<"[", "[">>
    THEN ParseTagLoop(s, p + 2, depth + 1, value \o <<"[", "[">>)
    ELSE ParseTagLoop(s, p + 1, depth, Append(value, s[p + 1]))

ParseTag(s, p) ==
    LET e1 == Expect(s, p, "[") IN
    IF ~e1.ok THEN e1
    ELSE LET e2 == Expect(s, e1.pos, "[") IN
    IF ~e2.ok THEN e2
    ELSE LET r == ParseTagLoop(s, e2.pos, 1, <<>>) IN
         IF r.depth # 0 THEN Err("Unclosed tag reference", r.pos)
         ELSE Ok(r.pos, [type |-> "tag", value |-> Trim(r.value)])

RECURSIVE ParseBlockRefLoop(_, _, _)
ParseBlockRefLoop(s, p, uid) ==
    IF ~(p < Len(s)) THEN [pos |-> p, uid |-> uid]
    ELSE IF Slice(s, p, p + 2) = <<")", ")">> THEN [pos |-> p + 2, uid |-> uid]
    ELSE ParseBlockRefLoop(s, p + 1, Append(uid, s[p + 1]))

ParseBlockRef(s, p) ==
    LET e1 == Expect(s, p, "(") IN
    IF ~e1.ok THEN e1
    ELSE LET e2 == Expect(s, e1.pos, "(") IN
    IF ~e2.ok THEN e2
    ELSE LET r == ParseBlockRefLoop(s, e2.pos, <<>>) IN
         IF r.uid = <<>> THEN Err("Empty block reference", r.pos)
         ELSE Ok(r.pos, [type |-> "block-ref", uid |-> Trim(r.uid)])

\* the loops of parseSearch (unquoted) and parseUserIdentifier: read until '}'
RECURSIVE UntilBraceLoop(_, _, _)
UntilBraceLoop(s, p, text) ==
    IF p < Len(s) /\ Peek(s, p) # "}"
    THEN UntilBraceLoop(s, p + 1, Append(text, s[p + 1]))
    ELSE Ok(p, text)

ParseSearch(s, p0) ==
    LET p == SkipWhitespace(s, p0) IN
    IF Peek(s, p) = "\""
    THEN LET r == QuotedLoop(s, p + 1, <<>>)
             q == IF Peek(s, r.pos) = "\"" THEN r.pos + 1 ELSE r.pos
         IN  Ok(q, [type |-> "search", text |-> r.val])
    ELSE LET r == UntilBraceLoop(s, p, <<>>)
         IN  Ok(r.pos, [type |-> "search", text |-> Trim(r.val)])

ParseDailyNotes(s, p) == Ok(p, [type |-> "daily-notes"])

ParseUserIdentifier(s, p) ==
    IF Slice(s, p, p + 2) = <<"[", "[">>
    THEN LET t == ParseTag(s, p) IN IF ~t.ok THEN t ELSE Ok(t.pos, t.val.value)
    ELSE LET r == UntilBraceLoop(s, p, <<>>) IN Ok(r.pos, Trim(r.val))

ParseUserClause(s, p0, type) ==
    LET u == ParseUserIdentifier(s, SkipWhitespace(s, p0)) IN
    IF ~u.ok THEN u ELSE Ok(u.pos, [type |-> type, user |-> u.val])

ParseBetween(s, p0) ==
    LET startTag == ParseTag(s, SkipWhitespace(s, p0)) IN
    IF ~startTag.ok THEN startTag
    ELSE LET endTag == ParseTag(s, SkipWhitespace(s, startTag.pos)) IN
    IF ~endTag.ok THEN endTag
    ELSE Ok(endTag.pos, [type |-> "between",
                         startDate |-> startTag.val.value,
                         endDate |-> endTag.val.value])

RECURSIVE ParseExpression(_, _)
RECURSIVE ParseOperator(_, _)
RECURSIVE ParseAndOrLoop(_, _, _)

\* the end of parseAndOr without the check for zero children
ParseAndOrNoCheck(r, type) ==
    IF ~r.ok THEN r ELSE Ok(r.pos, [type |-> type, children |-> r.val])

\* parseAndOr after its loop: r holds the children read
ParseAndOrCheck(r, type) ==
    IF ~r.ok THEN r
    ELSE IF Len(r.val) = 0
    THEN Err(type \o " operator requires at least one child", r.pos)
    ELSE Ok(r.pos, [type |-> type, children |-> r.val])

ParseAndOr(s, p0, type) ==
    ParseAndOrCheck(ParseAndOrLoop(s, SkipWhitespace(s, p0), <<>>), type)

\* parseNot after parseExpression
ParseNotNode(child) ==
    IF ~child.ok THEN child
    ELSE Ok(child.pos, [type |-> "not", child |-> child.val])

ParseNot(s, p0) == ParseNotNode(ParseExpression(s, SkipWhitespace(s, p0)))

\* the body of parseAndOr's loop after parseExpression returned c
ParseAndOrStep(s, children, c) ==
    IF ~c.ok THEN c
    ELSE ParseAndOrLoop(s, SkipWhitespace(s, c.pos), Append(children, c.val))

ParseAndOrLoop(s, p, children) ==
    IF p < Len(s) /\ Peek(s, p) # "}"
    THEN ParseAndOrStep(s, children, ParseExpression(s, p))
    ELSE Ok(p, children)

\* the switch of parseOperator on operator.toLowerCase(): the node type of
\* the case taken
OperatorType(operator) ==
    CASE operator = <<"a", "n", "d">> -> "and"
      [] operator = <<"o", "r">> -> "or"
      [] operator = <<"n", "o", "t">> -> "not"
      [] operator = <<"b", "e", "t", "w", "e", "e", "n">> -> "between"
      [] operator = <<"s", "e", "a", "r", "c", "h">> -> "search"
      [] operator = KnownMultiWord[3] -> "daily-notes"
      [] operator = <<"b", "y">> -> "by"
      [] operator = KnownMultiWord[1] -> "created-by"
      [] operator = KnownMultiWord[2] -> "edited-by"
      [] OTHER -> "default"

\* parseOperator after the switch: skip white space and expect '}'
ParseOperatorEnd(s, node) ==
    IF ~node.ok THEN node
    ELSE LET e3 == Expect(s, SkipWhitespace(s, node.pos), "}") IN
         IF ~e3.ok THEN e3 ELSE Ok(e3.pos, node.val)

\* parseOperator from the switch on
ParseOperatorBody(s, p, type) ==
    ParseOperatorEnd(s,
        CASE type \in {"and", "or"} -> ParseAndOr(s, p, type)
          [] type = "not" -> ParseNot(s, p)
          [] type = "between" -> ParseBetween(s, p)
          [] type = "search" -> ParseSearch(s, p)
          [] type = "daily-notes" -> ParseDailyNotes(s, p)
          [] type \in {"by", "created-by", "edited-by"} -> ParseUserClause(s, p, type)
          [] OTHER -> Err("Unknown operator", p))

ParseOperator(s, p0) ==
    LET e1 == Expect(s, p0, "{") IN
    IF ~e1.ok THEN e1
    ELSE LET name == ParseOperatorName(s, SkipWhitespace(s, e1.pos))
             e2 == Expect(s, SkipWhitespace(s, name.pos), ":")
    IN  IF ~e2.ok THEN e2
        ELSE ParseOperatorBody(s, SkipWhitespace(s, e2.pos),
                               OperatorType(ToLowerCase(name.val)))

ParseExpression(s, p0) ==
    LET p == SkipWhitespace(s, p0) IN
    IF Peek(s, p) = "{" THEN ParseOperator(s, p)
    ELSE IF Slice(s, p, p + 2) = <<"[", "[">> THEN ParseTag(s, p)
    ELSE IF Slice(s, p, p + 2) = <<"(", "(">> THEN ParseBlockRef(s, p)
    ELSE Err("Expected '{', '[[', or '(('", p)

\* "{{[[query]]:"
WrapperPrefix == <<"{", "{", "[", "[", "q", "u", "e", "r", "y", "]", "]", ":">>

\* trimmed.match(/^\{\{\[\[query\]\]:\s*(.+)\}\}$/s): the whole text is the
\* prefix, a middle of at least one character and the final "}}"; the greedy
\* \s* takes the leading white space of the middle but leaves (.+) a character
FullMatch(trimmed) ==
    /\ Len(trimmed) >= Len(WrapperPrefix) + 3
    /\ StartsWith(trimmed, WrapperPrefix)
    /\ Slice(trimmed, Len(trimmed) - 2, Len(trimmed)) = <<"}", "}">>

FullMatchGroup(trimmed) ==
    LET middle == Slice(trimmed, Len(WrapperPrefix), Len(trimmed) - 2)
        rest == TrimStart(middle)
    IN  IF rest = <<>> THEN <<middle[Len(middle)]>> ELSE rest

\* wrapper stripping that removes the prefix and keeps the closing braces
ExtractKeepingBraces(in) ==
    LET trimmed == Trim(in) IN
    IF FullMatch(trimmed)
    THEN Trim(Slice(trimmed, Len(WrapperPrefix), Len(trimmed)))
    ELSE trimmed

ExtractQueryExpression(in) ==
    LET trimmed == Trim(in) IN
    IF FullMatch(trimmed) THEN Trim(FullMatchGroup(trimmed)) ELSE trimmed

NoName == [def |-> FALSE, val |-> <<>>]

\* the end of parseQueryWithName without the check for content after the
\* expression
ParseQueryEndNoCheck(s, name, query) ==
    IF ~query.ok THEN query @@ [expr |-> s]
    ELSE [ok |-> TRUE, pos |-> SkipWhitespace(s, query.pos), expr |-> s,
          name |-> name, query |-> query.val]

\* parseQueryWithName after parseExpression: skip white space, reject content
\* that is left, return {name, query}.  The result also records the
\* expression the parser ran on (this.input) and the final this.pos.
ParseQueryEnd(s, name, query) ==
    IF ~query.ok THEN query @@ [expr |-> s]
    ELSE LET p2 == SkipWhitespace(s, query.pos) IN
         IF p2 < Len(s)
         THEN Err("Unexpected content after query", p2) @@ [expr |-> s]
         ELSE [ok |-> TRUE, pos |-> p2, expr |-> s, name |-> name,
               query |-> query.val]

\* parseQueryWithName after the optional name: nm is the parse of the name
ParseQueryNamed(s, nm) ==
    IF ~nm.ok THEN nm @@ [expr |-> s]
    ELSE ParseQueryEnd(s, [def |-> TRUE, val |-> nm.val],
                       ParseExpression(s, SkipWhitespace(s, nm.pos)))

\* parseQueryWithName on the extracted expression s
ParseQueryExpression(s, p0) ==
    IF Peek(s, p0) = "\""
    THEN ParseQueryNamed(s, ParseQuotedString(s, p0))
    ELSE ParseQueryEnd(s, NoName, ParseExpression(s, p0))

ParseQueryFrom(s) == ParseQueryExpression(s, SkipWhitespace(s, 0))

ParseQueryWithName(in) == ParseQueryFrom(ExtractQueryExpression(in))

\* static parseWithName(input)
ParseWithName(in) == ParseQueryWithName(in)

\* static parse(input): result.query only
QueryOf(result) ==
    IF result.ok THEN [ok |-> TRUE, query |-> result.query] ELSE result

Parse(in) == QueryOf(ParseWithName(in))

-----------------------------------------------------------------------------
(* Dates.  A time value (Date.prototype.getTime) is a record                *)
(* [day, ms]: whole days since 1970-01-01 and milliseconds into that day,   *)
(* standing for day * 86400000 + ms.  The process time zone is UTC, so a    *)
(* local calendar day is a day of this count.  A Date holds a time value of  *)
(* at most 8.64e15 ms (100,000,000 days) either side of 1970-01-01; a Date  *)
(* made from anything beyond is invalid and its getTime() is NaN, here      *)
(* InvalidDate, which arithmetic hands on.                                  *)

MsPerDay == 24 * 60 * 60 * 1000

Time(day, ms) == [day |-> day, ms |-> ms]

InvalidDate == [invalid |-> TRUE]

MaxTimeDays == 100 * 1000 * 1000

\* no year beyond this holds a day within MaxTimeDays
MaxYear == 300 * 1000

\* the time value a new Date keeps of t
TimeClip(t) ==
    IF /\ t.day >= 0 - MaxTimeDays
       /\ (t.day < MaxTimeDays \/ (t.day = MaxTimeDays /\ t.ms = 0))
    THEN t
    ELSE InvalidDate

\* t + n for a number of milliseconds n
AddMs(t, n) ==
    IF t = InvalidDate THEN InvalidDate
    ELSE Time(t.day + ((t.ms + n) \div MsPerDay), (t.ms + n) % MsPerDay)

\* new Date(t + n * 24 * 60 * 60 * 1000).getTime()
AddDays(t, n) ==
    IF t = InvalidDate THEN InvalidDate ELSE TimeClip(Time(t.day + n, t.ms))

\* the day count of the proleptic Gregorian date y-m-d, m in 1..12
DaysFromCivil(y, m, d) ==
    LET yy == IF m <= 2 THEN y - 1 ELSE y
        era == yy \div 400
        yoe == yy - era * 400
        mp == IF m > 2 THEN m - 3 ELSE m + 9
        doy == ((153 * mp + 2) \div 5) + d - 1
        doe == yoe * 365 + (yoe \div 4) - (yoe \div 100) + doy
    IN  era * 146097 + doe - 719468

\* getFullYear, getMonth (0-based) and getDate of a day count
CivilFromDays(day) ==
    LET z == day + 719468
        era == z \div 146097
        doe == z - era * 146097
        yoe == (doe - (doe \div 1460) + (doe \div 36524) - (doe \div 146096)) \div 365
        doy == doe - (365 * yoe + (yoe \div 4) - (yoe \div 100))
        mp == (5 * doy + 2) \div 153
        d == doy - ((153 * mp + 2) \div 5) + 1
        m == IF mp < 10 THEN mp + 3 ELSE mp - 9
    IN  [year |-> yoe + era * 400 + (IF m <= 2 THEN 1 ELSE 0),
         month |-> m - 1,
         date |-> d]

\* Date.prototype.getDay: 0 is Sunday; 1970-01-01 was a Thursday
GetDay(t) == (t.day + 4) % 7

\* new Date(year, monthIndex, date): a month index or date outside its range
\* carries into the neighbouring years and months
NewDate(year, monthIndex, date) ==
    LET y == year + (monthIndex \div 12) IN
    IF y < 0 - MaxYear \/ y > MaxYear THEN InvalidDate
    ELSE TimeClip(Time(DaysFromCivil(y, (monthIndex % 12) + 1, 1) + date - 1, 0))

Digits == <<"0", "1", "2", "3", "4", "5", "6", "7", "8", "9">>

IsDigit(c) == c \in Range(Digits)

DigitValue(c) == (CHOOSE i \in DOMAIN Digits : Digits[i] = c) - 1

\* parseInt(digits, 10) of a run of decimal digits
RECURSIVE ParseInt(_)
ParseInt(ds) ==
    IF ds = <<>> THEN 0
    ELSE 10 * ParseInt(SubSeq(ds, 1, Len(ds) - 1)) + DigitValue(ds[Len(ds)])

\* the text of a string value, as one string
RECURSIVE Str(_)
Str(s) == IF s = <<>> THEN "" ELSE Head(s) \o Str(Tail(s))

\* the length of the run of digits s starts with
RECURSIVE DigitRun(_)
DigitRun(s) ==
    IF s # <<>> /\ IsDigit(Head(s)) THEN 1 + DigitRun(Tail(s)) ELSE 0

\* /^(\d+)\s+(day|week|month|year)s?\s+ago$/
AgoUnits == {<<"d", "a", "y">>, <<"w", "e", "e", "k">>,
             <<"m", "o", "n", "t", "h">>, <<"y", "e", "a", "r">>}

\* rest matches \s+ago$
AgoTail(rest) ==
    /\ rest # <<>>
    /\ Head(rest) \in Whitespace
    /\ TrimStart(rest) = <<"a", "g", "o">>

NoMatch == [def |-> FALSE]

AgoMatch(s) ==
    LET n == DigitRun(s)
        afterDigits == SubSeq(s, n + 1, Len(s))
        afterSpace == TrimStart(afterDigits)
        units == {u \in AgoUnits :
                    /\ StartsWith(afterSpace, u)
                    /\ LET rest == SubSeq(afterSpace, Len(u) + 1, Len(afterSpace))
                       IN  \/ AgoTail(rest)
                           \/ rest # <<>> /\ Head(rest) = "s" /\ AgoTail(Tail(rest))}
    IN  IF n >= 1 /\ afterDigits # <<>> /\ Head(afterDigits) \in Whitespace
           /\ units # {}
        THEN [def |-> TRUE, amount |-> ParseInt(SubSeq(s, 1, n)),
              unit |-> Str(CHOOSE u \in units : TRUE)]
        ELSE NoMatch

\* amounts are numbers of up to 9 digits; more than 2 * MaxTimeDays of any
\* unit before a valid date is before the first valid date
SubtractFromDate(date, amount, unit) ==
    LET c == CivilFromDays(date.day) IN
    CASE amount > 2 * MaxTimeDays -> InvalidDate
      [] unit = "day" -> AddDays(date, 0 - amount)
      [] unit = "week" -> AddDays(date, 0 - amount * 7)
      [] unit = "month" -> NewDate(c.year, c.month - amount, c.date)
      [] unit = "year" -> NewDate(c.year - amount, c.month, c.date)
      [] OTHER -> date

Null == [def |-> FALSE]

Some(t) == [def |-> TRUE, time |-> t]

\* parseRelativeDate(dateStr) when new Date() reads the clock as now
ParseRelativeDate(dateStr, now) ==
    LET c == CivilFromDays(now.day)
        startOfToday == NewDate(c.year, c.month, c.date)
        text == Str(dateStr)
        agoMatch == AgoMatch(dateStr)
    IN  CASE text = "today" -> Some(startOfToday)
          [] text = "yesterday" -> Some(AddDays(startOfToday, -1))
          [] text = "tomorrow" -> Some(AddDays(startOfToday, 1))
          [] text \in {"last week", "a week ago"} -> Some(AddDays(startOfToday, -7))
          [] text = "this week" -> Some(AddDays(startOfToday, 0 - GetDay(now)))
          [] text = "next week" -> Some(AddDays(startOfToday, 7))
          [] text \in {"last month", "a month ago"} ->
                Some(NewDate(c.year, c.month - 1, c.date))
          [] text = "this month" -> Some(NewDate(c.year, c.month, 1))
          [] text = "next month" -> Some(NewDate(c.year, c.month + 1, c.date))
          [] text \in {"last year", "a year ago"} ->
                Some(NewDate(c.year - 1, c.month, c.date))
          [] text = "this year" -> Some(NewDate(c.year, 0, 1))
          [] text = "next year" -> Some(NewDate(c.year + 1, c.month, c.date))
          [] OTHER ->
                IF agoMatch.def
                THEN Some(SubtractFromDate(startOfToday, agoMatch.amount,
                                           agoMatch.unit))
                ELSE Null

OrdinalSuffixes == {<<"s", "t">>, <<"n", "d">>, <<"r", "d">>, <<"t", "h">>}

\* dateStr.replace(/(\d+)(st|nd|rd|th)/, '$1'): the first run of digits that
\* an ordinal suffix follows loses that suffix
StripOrdinal(s) ==
    LET hits == {j \in 1..(Len(s) - 2) :
                    IsDigit(s[j]) /\ <<s[j + 1], s[j + 2]>> \in OrdinalSuffixes}
    IN  IF hits = {} THEN s
        ELSE LET j == CHOOSE h \in hits : \A k \in hits : h <= k
             IN  SubSeq(s, 1, j) \o SubSeq(s, j + 3, Len(s))

MonthNames == <<"January", "February", "March", "April", "May", "June", "July",
                "August", "September", "October", "November", "December">>

\* new Date(text).getTime() for the date texts this model hands to it: a text
\* "<Month> <d>, <yyyy>" or "<yyyy>-<mm>-<dd>" of the calendar below is that
\* day at 00:00; any other text the model uses holds no digit and no month
\* name and is an Invalid Date (NaN)
KnownDates ==
    {[text |-> MonthNames[m] \o " " \o ToString(d) \o ", " \o ToString(y),
      time |-> Time(DaysFromCivil(y, m, d), 0)] :
        y \in {2026}, m \in {1, 3}, d \in {1, 31}}
    \cup {[text |-> "2026-01-01", time |-> Time(DaysFromCivil(2026, 1, 1), 0)],
          [text |-> "2026-01-31", time |-> Time(DaysFromCivil(2026, 1, 31), 0)]}

NaN == [def |-> FALSE]

DateParse(s) ==
    LET hit == {k \in KnownDates : k.text = Str(s)} IN
    IF hit = {} THEN NaN ELSE Some((CHOOSE k \in hit : TRUE).time)

Returned(t) == [ok |-> TRUE, time |-> t]

Thrown(message) == [ok |-> FALSE, name |-> "Error", message |-> message]

\* a date resolution that fails with an error of the parser's kind
RoamDateFromTextParseError(dateStr, date, isoDate) ==
    IF date.def THEN Returned(date.time)
    ELSE IF isoDate.def THEN Returned(isoDate.time)
    ELSE [ok |-> FALSE, name |-> "QueryParseError",
          message |-> "Cannot parse date: " \o Str(dateStr)]

RoamDateFromText(dateStr, date, isoDate) ==
    IF date.def THEN Returned(date.time)
    ELSE IF isoDate.def THEN Returned(isoDate.time)
    ELSE Thrown("Cannot parse date: " \o Str(dateStr))

\* roamDateToTimestamp(dateStr) when its new Date() reads the clock as now
RoamDateToTimestamp(dateStr, now) ==
    LET relativeDate == ParseRelativeDate(Trim(ToLowerCase(dateStr)), now) IN
    IF relativeDate.def THEN Returned(relativeDate.time)
    ELSE RoamDateFromText(dateStr, DateParse(StripOrdinal(dateStr)),
                          DateParse(dateStr))

-----------------------------------------------------------------------------
(* DatalogGenerator.  A clause fragment is a sequence of tokens, the pieces *)
(* of the template literal that builds it, so that its text is the          *)
(* concatenation of its tokens.  The private methods run against the        *)
(* generator's fields: ctx holds refCounter and inputCounter as the method  *)
(* finds them and the number of clock readings taken so far in the call;    *)
(* clock is the sequence of values successive new Date() calls read (the    *)
(* last one repeats).  A method returns its clauses (Clauses) or throws     *)
(* (GenThrown); both carry the fields as it leaves them.                    *)

Context(refCounter, inputCounter, reads) ==
    [refCounter |-> refCounter, inputCounter |-> inputCounter, reads |-> reads]

Clauses(where, inputs, inputValues, ctx) ==
    [ok |-> TRUE, where |-> where, inputs |-> inputs,
     inputValues |-> inputValues, ctx |-> ctx]

GenThrown(e, ctx) ==
    [ok |-> FALSE, name |-> e.name, message |-> e.message, ctx |-> ctx]

ClockAt(clock, k) == clock[Min(k, Len(clock))]

\* str.replace(/c/g, by) for a character c
RECURSIVE ReplaceAll(_, _, _)
ReplaceAll(s, c, by) ==
    IF s = <<>> THEN <<>>
    ELSE (IF Head(s) = c THEN by ELSE <<Head(s)>>) \o ReplaceAll(Tail(s), c, by)

\* an escaping that leaves backslashes as they are
EscapeQuotesOnly(str) == ReplaceAll(str, "\"", <<"\\", "\"">>)

EscapeString(str) ==
    ReplaceAll(ReplaceAll(str, "\\", <<"\\", "\\">>), "\"", <<"\\", "\"">>)

\* where.join(sep), token-wise
RECURSIVE Join(_, _)
Join(frags, sep) ==
    IF frags = <<>> THEN <<>>
    ELSE IF Len(frags) = 1 THEN frags[1]
    ELSE frags[1] \o <<sep>> \o Join(Tail(frags), sep)

\* the text of a fragment
RECURSIVE Text(_)
Text(tokens) == IF tokens = <<>> THEN "" ELSE Head(tokens) \o Text(Tail(tokens))

\* a generateTag that numbers its variable without advancing refCounter
GenerateTagNoIncrement(tagName, blockVar, ctx) ==
    LET refVar == "?ref-" \o ToString(ctx.refCounter) IN
    Clauses(<< <<"[", refVar, " :node/title \"", Str(EscapeString(tagName)), "\"]">>,
               <<"[", blockVar, " :block/refs ", refVar, "]">> >>,
            <<>>, <<>>, ctx)

GenerateTag(tagName, blockVar, ctx) ==
    LET refVar == "?ref-" \o ToString(ctx.refCounter) IN
    Clauses(<< <<"[", refVar, " :node/title \"", Str(EscapeString(tagName)), "\"]">>,
               <<"[", blockVar, " :block/refs ", refVar, "]">> >>,
            <<>>, <<>>,
            [ctx EXCEPT !.refCounter = @ + 1])

\* generateBlockRef numbering its variable by a counter that tags do not
\* advance
GenerateBlockRefOwnCounter(uid, blockVar, ctx) ==
    LET refVar == "?block-ref-" \o ToString(ctx.inputCounter) IN
    Clauses(<< <<"[", refVar, " :block/uid \"", Str(EscapeString(uid)), "\"]">>,
               <<"[", blockVar, " :block/refs ", refVar, "]">> >>,
            <<>>, <<>>,
            [ctx EXCEPT !.refCounter = @ + 1])

GenerateBlockRef(uid, blockVar, ctx) ==
    LET refVar == "?block-ref-" \o ToString(ctx.refCounter) IN
    Clauses(<< <<"[", refVar, " :block/uid \"", Str(EscapeString(uid)), "\"]">>,
               <<"[", blockVar, " :block/refs ", refVar, "]">> >>,
            <<>>, <<>>,
            [ctx EXCEPT !.refCounter = @ + 1])

GenerateSearch(text, blockVar, ctx) ==
    Clauses(<< <<"[(clojure.string/includes? ?block-str \"",
                 Str(EscapeString(text)), "\")]">> >>,
            <<>>, <<>>, ctx)

DailyTitlePattern ==
    "[(re-find #\"^(January|February|March|April|May|June|July|August|September|October|November|December) \\d{1,2}(st|nd|rd|th), \\d{4}$\" ?daily-title)]"

GenerateDailyNotes(blockVar, ctx) ==
    Clauses(<< <<"[", blockVar, " :block/page ?daily-page]">>,
               <<"[?daily-page :node/title ?daily-title]">>,
               <<DailyTitlePattern>> >>,
            <<>>, <<>>, ctx)

GenerateBy(user, blockVar, ctx) ==
    LET escapedUser == Str(EscapeString(user)) IN
    Clauses(<< <<"(or-join [", blockVar, "]\n        (and [", blockVar,
                 " :create/user ?by-creator]\n             [?by-creator :user/display-name \"",
                 escapedUser, "\"])\n        (and [", blockVar,
                 " :edit/user ?by-editor]\n             [?by-editor :user/display-name \"",
                 escapedUser, "\"]))">> >>,
            <<>>, <<>>, ctx)

GenerateUserClause(user, blockVar, attribute, varName, ctx) ==
    Clauses(<< <<"[", blockVar, " ", attribute, " ?", varName, "]">>,
               <<"[?", varName, " :user/display-name \"",
                 Str(EscapeString(user)), "\"]">> >>,
            <<>>, <<>>, ctx)

GenerateCreatedBy(user, blockVar, ctx) ==
    GenerateUserClause(user, blockVar, ":create/user", "creator", ctx)

GenerateEditedBy(user, blockVar, ctx) ==
    GenerateUserClause(user, blockVar, ":edit/user", "editor", ctx)

\* the end-of-day time is one millisecond short of 24 hours after endTs
BetweenEnd(blockVar, startVar, endVar, startTs, endTs, ctx) ==
    IF ~endTs.ok THEN GenThrown(endTs, ctx)
    ELSE Clauses(<< <<"[", blockVar, " :create/time ?create-time]">>,
                    <<"[(>= ?create-time ", startVar, ")]">>,
                    <<"[(<= ?create-time ", endVar, ")]">> >>,
                 <<startVar, endVar>>,
                 <<startTs.time, AddMs(endTs.time, MsPerDay - 1)>>,
                 ctx)

BetweenStart(endDate, blockVar, startVar, endVar, startTs, ctx, clock) ==
    IF ~startTs.ok THEN GenThrown(startTs, ctx)
    ELSE BetweenEnd(blockVar, startVar, endVar, startTs,
                    RoamDateToTimestamp(endDate, ClockAt(clock, ctx.reads + 1)),
                    [ctx EXCEPT !.reads = @ + 1])

GenerateBetween(startDate, endDate, blockVar, ctx, clock) ==
    BetweenStart(endDate, blockVar,
                 "?start-date-" \o ToString(ctx.inputCounter),
                 "?end-date-" \o ToString(ctx.inputCounter + 1),
                 RoamDateToTimestamp(startDate, ClockAt(clock, ctx.reads + 1)),
                 [ctx EXCEPT !.inputCounter = @ + 2, !.reads = @ + 1],
                 clock)

\* a grouping that joins a child's clauses without the (and ...) around them
WrappedBare(where) == Join(where, " ")

\* a child's clauses as one fragment: alone, or wrapped in (and ...)
Wrapped(where) ==
    IF Len(where) = 1 THEN where[1]
    ELSE <<"(and ">> \o Join(where, " ") \o <<")">>

RECURSIVE GenerateNode(_, _, _, _)
RECURSIVE GenerateAndLoop(_, _, _, _, _)
RECURSIVE GenerateOrLoop(_, _, _, _, _)

\* a loop body that pushes the child's fragments in front of the earlier ones
GenerateAndStepInFront(children, i, blockVar, acc, clock, childClauses) ==
    IF ~childClauses.ok THEN childClauses
    ELSE GenerateAndLoop(children, i + 1, blockVar,
                         Clauses(childClauses.where \o acc.where,
                                 acc.inputs \o childClauses.inputs,
                                 acc.inputValues \o childClauses.inputValues,
                                 childClauses.ctx),
                         clock)

GenerateAndStep(children, i, blockVar, acc, clock, childClauses) ==
    IF ~childClauses.ok THEN childClauses
    ELSE GenerateAndLoop(children, i + 1, blockVar,
                         Clauses(acc.where \o childClauses.where,
                                 acc.inputs \o childClauses.inputs,
                                 acc.inputValues \o childClauses.inputValues,
                                 childClauses.ctx),
                         clock)

\* the for loop of generateAnd from child i on; acc is what was pushed so far
GenerateAndLoop(children, i, blockVar, acc, clock) ==
    IF i > Len(children) THEN acc
    ELSE GenerateAndStep(children, i, blockVar, acc, clock,
                         GenerateNode(children[i], blockVar, acc.ctx, clock))

GenerateAnd(children, blockVar, ctx, clock) ==
    GenerateAndLoop(children, 1, blockVar, Clauses(<<>>, <<>>, <<>>, ctx), clock)

GenerateOrStep(children, i, blockVar, acc, clock, childClauses) ==
    IF ~childClauses.ok THEN childClauses
    ELSE GenerateOrLoop(children, i + 1, blockVar,
                        Clauses(Append(acc.where, Wrapped(childClauses.where)),
                                acc.inputs \o childClauses.inputs,
                                acc.inputValues \o childClauses.inputValues,
                                childClauses.ctx),
                        clock)

\* the for loop of generateOr from child i on; acc.where holds orBranches
GenerateOrLoop(children, i, blockVar, acc, clock) ==
    IF i > Len(children) THEN acc
    ELSE GenerateOrStep(children, i, blockVar, acc, clock,
                        GenerateNode(children[i], blockVar, acc.ctx, clock))

OrClause(blockVar, branches) ==
    IF ~branches.ok THEN branches
    ELSE Clauses(<< <<"(or-join [", blockVar, "] ">>
                    \o Join(branches.where, " ") \o <<")">> >>,
                 branches.inputs, branches.inputValues, branches.ctx)

GenerateOr(children, blockVar, ctx, clock) ==
    OrClause(blockVar,
             GenerateOrLoop(children, 1, blockVar,
                            Clauses(<<>>, <<>>, <<>>, ctx), clock))

NotClause(childClauses) ==
    IF ~childClauses.ok THEN childClauses
    ELSE Clauses(<< <<"(not ">> \o Wrapped(childClauses.where) \o <<")">> >>,
                 childClauses.inputs, childClauses.inputValues, childClauses.ctx)

GenerateNot(child, blockVar, ctx, clock) ==
    NotClause(GenerateNode(child, blockVar, ctx, clock))

GenerateNode(node, blockVar, ctx, clock) ==
    CASE node.type = "and" -> GenerateAnd(node.children, blockVar, ctx, clock)
      [] node.type = "or" -> GenerateOr(node.children, blockVar, ctx, clock)
      [] node.type = "not" -> GenerateNot(node.child, blockVar, ctx, clock)
      [] node.type = "between" ->
            GenerateBetween(node.startDate, node.endDate, blockVar, ctx, clock)
      [] node.type = "tag" -> GenerateTag(node.value, blockVar, ctx)
      [] node.type = "block-ref" -> GenerateBlockRef(node.uid, blockVar, ctx)
      [] node.type = "search" -> GenerateSearch(node.text, blockVar, ctx)
      [] node.type = "daily-notes" -> GenerateDailyNotes(blockVar, ctx)
      [] node.type = "by" -> GenerateBy(node.user, blockVar, ctx)
      [] node.type = "created-by" -> GenerateCreatedBy(node.user, blockVar, ctx)
      [] node.type = "edited-by" -> GenerateEditedBy(node.user, blockVar, ctx)

\* the fields of a new DatalogGenerator
NewGenerator == [refCounter |-> 0, inputCounter |-> 0]

\* a generate that carries on from the counters it finds in the fields
GenerateNoReset(node, g, clock) ==
    GenerateNode(node, "?b", Context(g.refCounter, g.inputCounter, 0), clock)

\* generate(node) on a generator whose fields are g: both counters are set
\* to 0 before the traversal
Generate(node, g, clock) ==
    GenerateNode(node, "?b", Context(0, 0, 0), clock)

\* the generator's fields once a call that ended in r is over
FieldsAfter(r) ==
    [refCounter |-> r.ctx.refCounter, inputCounter |-> r.ctx.inputCounter]

-----------------------------------------------------------------------------
(* buildDatalogQuery and QueryExecutor.buildCountQuery.  An optional        *)
(* property of an options object is Absent or Given(v).  The query text is  *)
(* a sequence of tokens like a fragment; an argument is tagged with its     *)
(* JavaScript type.                                                         *)

Absent == [def |-> FALSE]

Given(v) == [def |-> TRUE, val |-> v]

\* if (text): undefined and the empty string are falsy
Truthy(text) == text.def /\ text.val # ""

NoOptions ==
    [limit |-> Absent, offset |-> Absent, orderBy |-> Absent, pageUid |-> Absent]

NumberArg(t) == [number |-> t]

StringArg(text) == [string |-> text]

\* strs.join(sep), token-wise
JoinStrings(strs, sep) == Join([i \in DOMAIN strs |-> <<strs[i]>>], sep)

InClause(clauses, pageUid) ==
    <<":in $">>
    \o (IF Len(clauses.inputs) > 0
        THEN <<" ">> \o JoinStrings(clauses.inputs, " ") ELSE <<>>)
    \o (IF Truthy(pageUid) THEN <<" ?target-page-uid">> ELSE <<>>)

\* modifiers that carry a limit of -1 too
ModifiersKeepUnlimited(options) ==
    (IF options.limit.def
     THEN << <<":limit ", ToString(options.limit.val)>> >> ELSE <<>>)
    \o (IF options.offset.def /\ options.offset.val > 0
        THEN << <<":offset ", ToString(options.offset.val)>> >> ELSE <<>>)
    \o (IF Truthy(options.orderBy)
        THEN << <<":order ", options.orderBy.val>> >> ELSE <<>>)

Modifiers(options) ==
    (IF options.limit.def /\ options.limit.val # -1
     THEN << <<":limit ", ToString(options.limit.val)>> >> ELSE <<>>)
    \o (IF options.offset.def /\ options.offset.val > 0
        THEN << <<":offset ", ToString(options.offset.val)>> >> ELSE <<>>)
    \o (IF Truthy(options.orderBy)
        THEN << <<":order ", options.orderBy.val>> >> ELSE <<>>)

\* an argument list that puts the page before the input values
QueryArgsPageFirst(clauses, pageUid) ==
    (IF Truthy(pageUid) THEN <<StringArg(pageUid.val)>> ELSE <<>>)
    \o [i \in DOMAIN clauses.inputValues |-> NumberArg(clauses.inputValues[i])]

QueryArgs(clauses, pageUid) ==
    [i \in DOMAIN clauses.inputValues |-> NumberArg(clauses.inputValues[i])]
    \o (IF Truthy(pageUid) THEN <<StringArg(pageUid.val)>> ELSE <<>>)

Select == <<"?block-uid", "?block-str", "?page-title">>

BuildDatalogQuery(clauses, options) ==
    LET baseClauses ==
            << <<"[?b :block/string ?block-str]">>,
               <<"[?b :block/uid ?block-uid]">>,
               <<"[?b :block/page ?p]">>,
               <<"[?p :node/title ?page-title]">> >>
            \o (IF Truthy(options.pageUid)
                THEN << <<"[?p :block/uid ?target-page-uid]">> >> ELSE <<>>)
    IN  [query |->
            <<"[:find ">> \o JoinStrings(Select, " ")
            \o <<"\n                  ">> \o InClause(clauses, options.pageUid)
            \o <<" ">> \o Join(Modifiers(options), " ")
            \o <<"\n                  :where\n                  ">>
            \o Join(baseClauses \o clauses.where, "\n                  ")
            \o <<"]">>,
         args |-> QueryArgs(clauses, options.pageUid)]

\* a count query that keeps the page-title base fragment
BuildCountQueryWithTitle(clauses, pageUid) ==
    LET baseClauses ==
            << <<"[?b :block/string ?block-str]">>,
               <<"[?b :block/uid ?block-uid]">>,
               <<"[?b :block/page ?p]">>,
               <<"[?p :node/title ?page-title]">> >>
            \o (IF Truthy(pageUid)
                THEN << <<"[?p :block/uid ?target-page-uid]">> >> ELSE <<>>)
    IN  [query |->
            <<"[:find (count ?b)\n                    ">>
            \o InClause(clauses, pageUid)
            \o <<"\n                    :where\n                    ">>
            \o Join(baseClauses \o clauses.where, "\n                    ")
            \o <<"]">>,
         args |-> QueryArgs(clauses, pageUid)]

BuildCountQuery(clauses, pageUid) ==
    LET baseClauses ==
            << <<"[?b :block/string ?block-str]">>,
               <<"[?b :block/uid ?block-uid]">>,
               <<"[?b :block/page ?p]">> >>
            \o (IF Truthy(pageUid)
                THEN << <<"[?p :block/uid ?target-page-uid]">> >> ELSE <<>>)
    IN  [query |->
            <<"[:find (count ?b)\n                    ">>
            \o InClause(clauses, pageUid)
            \o <<"\n                    :where\n                    ">>
            \o Join(baseClauses \o clauses.where, "\n                    ")
            \o <<"]">>,
         args |-> QueryArgs(clauses, pageUid)]

-----------------------------------------------------------------------------
(* QueryExecutor.  One executor holds one generator (gen).  Each call of    *)
(* execute is a record of calls: its arguments, its position (pc), its      *)
(* locals and, once it completed, its result.  execute runs parse,          *)
(* generate and buildDatalogQuery without suspending, then awaits q, the    *)
(* resolveRefs of every row (Promise.all) and, with a bounded limit, the    *)
(* count query; q and resolveRefs belong to the graph client, which         *)
(* answers or rejects as it pleases.  fault records the first failure a     *)
(* call met.                                                                *)

NoResult == [none |-> TRUE]

NoFault == [def |-> FALSE]

Fault(step, message) == [def |-> TRUE, step |-> step, message |-> message]

NoDatalog == [query |-> <<>>, args |-> <<>>]

NoClauses == [ok |-> FALSE, name |-> "none", message |-> "", ctx |-> Context(0, 0, 0)]

NoAst == [type |-> "none"]

IdleCall ==
    [pc |-> "idle", queryBlock |-> <<>>, options |-> NoOptions, clock |-> <<>>,
     ast |-> NoAst, clauses |-> NoClauses, datalog |-> NoDatalog,
     rawResults |-> <<>>, refs |-> <<>>, countQuery |-> NoDatalog,
     countResults |-> Absent, fault |-> NoFault, result |-> NoResult,
     log |-> <<>>, answered |-> <<>>]

\* an entry of log, the calls of q and resolveRefs a call of execute has
\* made so far, in the order it made them; answered holds the rows in the
\* order in which their resolveRefs answered
Invoked(fn, arg) == [fn |-> fn, arg |-> arg]

\* a thrown or rejected value: an Error with its message, or another value
\* with its String() text
ErrorValue(name, message) == [isError |-> TRUE, name |-> name, message |-> message]

OtherValue(text) == [isError |-> FALSE, name |-> "", message |-> text]

\* error instanceof Error ? error.message : String(error)
ErrorMessage(error) == error.message

\* a failure result that keeps the rows resolved so far and the query
FailureResultPartial(call, error) ==
    [success |-> FALSE,
     matches |-> SelectSeq([i \in DOMAIN call.refs |->
                              [block_uid |-> call.rawResults[i][1],
                               content |-> call.refs[i].content,
                               state |-> call.refs[i].state]],
                           LAMBDA m : m.state = "resolved"),
     message |-> ErrorMessage(error),
     query |-> Text(call.datalog.query)]

\* the object the catch block returns; call holds the locals of the try block
FailureResult(call, error) ==
    [success |-> FALSE, matches |-> <<>>, message |-> ErrorMessage(error)]

\* a catch block that handles parse errors only and rethrows the rest
CatchParseErrorsOnly(call, error) ==
    IF error.name = "QueryParseError"
    THEN [call EXCEPT !.pc = "returned", !.result = FailureResult(call, error)]
    ELSE [call EXCEPT !.pc = "raised"]

\* the catch block of execute
Catch(call, error) ==
    [call EXCEPT !.pc = "returned", !.result = FailureResult(call, error)]

\* a failure at a step of the call, met by the catch block
Fail(call, step, error) ==
    [Catch(call, error) EXCEPT !.fault = Fault(step, ErrorMessage(error))]

\* the options execute hands to buildDatalogQuery
ExecuteOptions(options) ==
    [limit |-> options.limit, offset |-> options.offset,
     pageUid |-> options.pageUid,
     orderBy |-> IF Truthy(options.orderBy) THEN options.orderBy
                 ELSE Given("?block-uid asc")]

\* a test that takes every given limit as bounded
PaginatedWhenGiven(options) == options.limit.def

\* options.limit !== undefined && options.limit !== -1
Paginated(options) == options.limit.def /\ options.limit.val # -1

\* matches put together in the order in which the resolutions answered
ResolvedResultsAsAnswered(call) ==
    [k \in DOMAIN call.answered |->
        [block_uid |-> call.rawResults[call.answered[k]][1],
         content |-> call.refs[call.answered[k]].content,
         page_title |-> call.rawResults[call.answered[k]][3]]]

ResolvedResults(call) ==
    [i \in DOMAIN call.rawResults |->
        [block_uid |-> call.rawResults[i][1],
         content |-> call.refs[i].content,
         page_title |-> call.rawResults[i][3]]]

\* the return statement of the try block
ExecuteReturn(call, totalCount) ==
    [call EXCEPT
        !.pc = "returned",
        !.result =
            [success |-> TRUE,
             matches |-> ResolvedResults(call),
             message |-> "Found " \o ToString(Len(call.rawResults))
                         \o " block(s) matching query",
             total_count |-> totalCount,
             query |-> Text(call.datalog.query)]]

\* an execute that submits the count query along with the main query
ExecuteGeneratedWithCount(call, clauses) ==
    IF ~clauses.ok
    THEN Fail([call EXCEPT !.clauses = clauses], "generate",
              ErrorValue(clauses.name, clauses.message))
    ELSE [call EXCEPT
            !.pc = "query",
            !.clauses = clauses,
            !.datalog = BuildDatalogQuery(clauses, ExecuteOptions(call.options)),
            !.log = <<Invoked("q", "query"), Invoked("q", "countQuery")>>]

\* execute from generate on: clauses is what generate returned or threw
ExecuteGenerated(call, clauses) ==
    IF ~clauses.ok
    THEN Fail([call EXCEPT !.clauses = clauses], "generate",
              ErrorValue(clauses.name, clauses.message))
    ELSE [call EXCEPT
            !.pc = "query",
            !.clauses = clauses,
            !.datalog = BuildDatalogQuery(clauses, ExecuteOptions(call.options)),
            !.log = <<Invoked("q", "query")>>]

\* execute up to its first await: ast is what QueryParser.parse returned or
\* threw; g holds the generator's fields
ExecuteStart(call, ast, g) ==
    IF ~ast.ok
    THEN Fail(call, "parse", ErrorValue(ast.kind, ast.msg))
    ELSE ExecuteGenerated([call EXCEPT !.ast = ast.query],
                          Generate(ast.query, g, call.clock))

\* the generator's fields after the start of a call
GeneratorAfter(call, g) ==
    IF call.ast = NoAst THEN g ELSE FieldsAfter(call.clauses)

\* countResults[0]?.[0] ?? 0
CountOf(countResults) ==
    IF Len(countResults) > 0 /\ Len(countResults[1]) > 0
    THEN countResults[1][1] ELSE 0

\* execute from the answer of the count query on
CountReturned(call, countResults) ==
    ExecuteReturn([call EXCEPT !.countResults = Given(countResults)],
                  CountOf(countResults))

\* QueryExecutor.parse(queryBlock): {ast, datalog}, or what parse or
\* generate threw
ParseGenerated(ast, clauses) ==
    IF ~clauses.ok
    THEN [ok |-> FALSE, ast |-> ast.query, clauses |-> clauses,
          datalog |-> NoDatalog,
          error |-> ErrorValue(clauses.name, clauses.message)]
    ELSE [ok |-> TRUE, ast |-> ast.query, clauses |-> clauses,
          datalog |-> BuildDatalogQuery(clauses, NoOptions),
          error |-> OtherValue("")]

ExecutorParse(queryBlock, g, clock) ==
    LET ast == Parse(queryBlock) IN
    IF ~ast.ok
    THEN [ok |-> FALSE, ast |-> NoAst, clauses |-> NoClauses,
          datalog |-> NoDatalog, error |-> ErrorValue(ast.kind, ast.msg)]
    ELSE ParseGenerated(ast, Generate(ast.query, g, clock))

-----------------------------------------------------------------------------
(* Parser runs: one source text, drawn from four families of piece         *)
(* sequences, is handed to parseWithName or to parse.                      *)

MaxRawPieces == 4
MaxTitlePieces == 5
MaxArgs == 3
MaxInnerPieces == 3

SeqsUpTo(S, n) == UNION {[1..k -> S] : k \in 0..n}

TagA == <<"[", "[", "a", "]", "]">>
RefU == <<"(", "(", "u", ")", ")">>
NotA == <<"{", "n", "o", "t", ":", " ", "[", "[", "a", "]", "]", "}">>
OpenTag == <<"[", "[">>
CloseTag == <<"]", "]">>
OpenRef == <<"(", "(">>
CloseRef == <<")", ")">>
OpAnd == <<"{", "a", "n", "d", ":">>
OpOr == <<"{", "O", "r", " ", ":">>
OpNot == <<"{", "n", "o", "t", ":">>
OpBetween == <<"{", "b", "e", "t", "w", "e", "e", "n", ":">>
OpBy == <<"{", "b", "y", ":">>
OpSearch == <<"{", "s", "e", "a", "r", "c", "h", ":">>
OpDaily == <<"{", "d", "a", "i", "l", "y", " ", "n", "o", "t", "e", "s", ":">>
OpUnknown == <<"{", "u", "n", "k", "n", "o", "w", "n", ":">>
OpNameless == <<"{", ":">>
OpAndy == <<"{", "a", "n", "d", "y", ":">>
Quote == <<"\"">>

\* raw: any sequence of delimiters, operators and text
RawPieces == {OpenTag, CloseTag, OpenRef, CloseRef, <<"a">>, <<" ">>,
              OpAnd, <<"}">>, Quote}

\* title: [[t]] for a title t of text and [[ ]] delimiters
TitlePieces == {<<"a">>, <<" ">>, <<"/">>, OpenTag, CloseTag}

\* op: {name: arg ... arg}
OpPieces == {OpAnd, OpOr, OpNot, OpBetween, OpDaily, OpBy, OpSearch,
             OpUnknown, OpNameless, OpAndy}
\* the operators whose arity C5 is about, and the names that are no operator
ArityOps == {OpAnd, OpOr, OpNot, OpBetween, OpUnknown, OpNameless, OpAndy}
ArgPieces == {TagA, RefU, NotA, <<" ">>}

\* wrap: an expression e with an optional "name" and white space around it,
\* bare or inside the wrapper {{[[query]]: ... }}
InnerPieces == {TagA, OpenRef, <<"u">>, OpAnd, <<"}">>, <<" ">>}
WrapNames == {NoName, [def |-> TRUE, val |-> <<>>],
              [def |-> TRUE, val |-> <<"M", "y", " ", "Q">>]}
Paddings == {<<>>, <<" ", "\n">>}

Shapes ==
    [fam : {"raw"}, parts : SeqsUpTo(RawPieces, MaxRawPieces)]
    \cup [fam : {"title"}, parts : SeqsUpTo(TitlePieces, MaxTitlePieces)]
    \cup [fam : {"op"}, op : OpPieces, parts : SeqsUpTo(ArgPieces, MaxArgs)]
    \cup [fam : {"wrap"}, wrapped : BOOLEAN, name : WrapNames,
          lead : Paddings, trail : Paddings,
          parts : SeqsUpTo(InnerPieces, MaxInnerPieces)]

NameText(name) == IF name.def THEN Quote \o name.val \o Quote \o <<" ">> ELSE <<>>

SourceText(sh) ==
    CASE sh.fam \in {"raw", "nest"} -> Flatten(sh.parts)
      [] sh.fam = "title" -> OpenTag \o Flatten(sh.parts) \o CloseTag
      [] sh.fam = "op" -> sh.op \o Flatten(sh.parts) \o <<"}">>
      [] sh.fam = "wrap" ->
            LET e == sh.lead \o NameText(sh.name) \o Flatten(sh.parts) \o sh.trail
            IN  IF sh.wrapped THEN WrapperPrefix \o e \o <<"}", "}">> ELSE e

NotRun == [ok |-> FALSE, kind |-> "none", msg |-> "", pos |-> 0]

\* a direct call that was not made
NoCall ==
    [op |-> "none", ok |-> FALSE, ast |-> NoAst, clock |-> <<>>,
     clauses |-> NoClauses, datalog |-> NoDatalog, error |-> OtherValue("")]

\* an executor just constructed, with no call of execute yet
ExecutorInit(callers) ==
    /\ gen = NewGenerator
    /\ last = NoCall
    /\ calls = [c \in callers |-> IdleCall]

ParseInit ==
    /\ shape \in Shapes
    /\ input = SourceText(shape)
    /\ outcome = NotRun
    /\ pstage = "start"
    /\ ExecutorInit({})

CallParseWithName ==
    /\ pstage = "start"
    /\ outcome' = ParseWithName(input)
    /\ pstage' = "parseWithName"
    /\ UNCHANGED <<shape, input>>
    /\ UNCHANGED executorVars

CallParse ==
    /\ pstage = "start"
    /\ outcome' = Parse(input)
    /\ pstage' = "parse"
    /\ UNCHANGED <<shape, input>>
    /\ UNCHANGED executorVars

ParseNext == CallParseWithName \/ CallParse

SpecParse == ParseInit /\ [][ParseNext]_vars

\* nest: operators inside operators, closed and left open
MaxNestPieces == 4
NestPieces == {OpAnd, OpNot, TagA, NotA, OpenTag, <<" ">>, <<"}">>}
NestShapes == [fam : {"nest"}, parts : SeqsUpTo(NestPieces, MaxNestPieces)]

NestInit ==
    /\ shape \in NestShapes
    /\ input = SourceText(shape)
    /\ outcome = NotRun
    /\ pstage = "start"
    /\ ExecutorInit({})

SpecNest == NestInit /\ [][ParseNext]_vars

-----------------------------------------------------------------------------
(* Generator and executor runs.  There is no parser run in them: the parser *)
(* is reached through generate's callers only.                              *)

NoParserRun ==
    /\ shape = [fam |-> "raw", parts |-> <<>>]
    /\ input = <<>>
    /\ outcome = NotRun
    /\ pstage = "off"

MaxChildren == 2
MaxRows == 2

Today == <<"t", "o", "d", "a", "y">>
Tomorrow == <<"t", "o", "m", "o", "r", "r", "o", "w">>

Tag(value) == [type |-> "tag", value |-> value]
BlockRef(uid) == [type |-> "block-ref", uid |-> uid]
Between(startDate, endDate) ==
    [type |-> "between", startDate |-> startDate, endDate |-> endDate]
Not(child) == [type |-> "not", child |-> child]
And(children) == [type |-> "and", children |-> children]
Or(children) == [type |-> "or", children |-> children]

\* the ASTs handed to generate: leaves, not and binary and/or over leaves,
\* and not, and/or over those.  <<"a">> is no date.
PairLeaves == {Tag(<<"a">>), BlockRef(<<"u">>), Between(Today, Tomorrow)}

Leaves ==
    PairLeaves
    \cup {Tag(<<"b">>), Between(<<"a">>, Today), [type |-> "daily-notes"]}

Level1 ==
    Leaves
    \cup {Not(l) : l \in Leaves}
    \cup {And(<<l, m>>) : l \in PairLeaves, m \in PairLeaves}
    \cup {Or(<<l, m>>) : l \in PairLeaves, m \in PairLeaves}

Asts ==
    Level1
    \cup {Not(n) : n \in Level1}
    \cup {And(ns) : ns \in SeqsUpTo(Level1, MaxChildren)}
    \cup {Or(ns) : ns \in SeqsUpTo(Level1, MaxChildren)}

\* what new Date() reads during one call: the same instant throughout, or
\* the last millisecond of a day and then the first of the next
Noon == Time(DaysFromCivil(2026, 3, 31), 12 * 60 * 60 * 1000)
Clocks ==
    {<<Noon>>,
     <<Time(DaysFromCivil(2026, 3, 31), MsPerDay - 1),
       Time(DaysFromCivil(2026, 4, 1), 0)>>}

GenerateDone(ast, clock, clauses) ==
    /\ last' = [op |-> "generate", ok |-> clauses.ok, ast |-> ast,
                clock |-> clock, clauses |-> clauses, datalog |-> NoDatalog,
                error |-> IF clauses.ok THEN OtherValue("")
                          ELSE ErrorValue(clauses.name, clauses.message)]
    /\ gen' = FieldsAfter(clauses)

\* generator.generate(ast), called directly
GenerateCall(asts, clocks) ==
    \E ast \in asts, clock \in clocks :
        /\ GenerateDone(ast, clock, Generate(ast, gen, clock))
        /\ UNCHANGED <<calls, shape, input, outcome, pstage>>

\* one call of generate on a new generator: the AST and the clock are drawn
\* at the start
Requested(ast, clock) == [NoCall EXCEPT !.op = "request", !.ast = ast, !.clock = clock]

GenerateRequested ==
    /\ last.op = "request"
    /\ GenerateDone(last.ast, last.clock, Generate(last.ast, gen, last.clock))
    /\ UNCHANGED <<calls, shape, input, outcome, pstage>>

GenInit ==
    /\ NoParserRun
    /\ gen = NewGenerator
    /\ last \in {Requested(ast, clock) : ast \in Asts, clock \in Clocks}
    /\ calls = [c \in {} |-> IdleCall]

GenNext == GenerateRequested

SpecGen == GenInit /\ [][GenNext]_vars

\* generate on the ASTs whose leaves are tags and block references only
BinderLeaves == {Tag(<<"a">>), BlockRef(<<"u">>)}

BinderLevel1 ==
    BinderLeaves
    \cup {Not(l) : l \in BinderLeaves}
    \cup {And(<<l, m>>) : l \in BinderLeaves, m \in BinderLeaves}
    \cup {Or(<<l, m>>) : l \in BinderLeaves, m \in BinderLeaves}

BinderAsts ==
    BinderLevel1
    \cup {Not(n) : n \in BinderLevel1}
    \cup {And(ns) : ns \in SeqsUpTo(BinderLevel1, MaxChildren)}
    \cup {Or(ns) : ns \in SeqsUpTo(BinderLevel1, MaxChildren)}

BinderInit ==
    /\ NoParserRun
    /\ gen = NewGenerator
    /\ last \in {Requested(ast, <<Noon>>) : ast \in BinderAsts}
    /\ calls = [c \in {} |-> IdleCall]

SpecBinders == BinderInit /\ [][GenNext]_vars

\* one call of generate on a node that carries a literal of letters,
\* backslashes and double quotes
MaxLiteral == 3

Search(text) == [type |-> "search", text |-> text]
By(type, user) == [type |-> type, user |-> user]

Literals == SeqsUpTo({"a", "\\", "\""}, MaxLiteral)

LiteralAsts ==
    {Tag(t) : t \in Literals} \cup {BlockRef(t) : t \in Literals}
    \cup {Search(t) : t \in Literals}
    \cup {By(type, t) : type \in {"by", "created-by", "edited-by"}, t \in Literals}

LiteralInit ==
    /\ NoParserRun
    /\ gen = NewGenerator
    /\ last \in {Requested(ast, <<Noon>>) : ast \in LiteralAsts}
    /\ calls = [c \in {} |-> IdleCall]

SpecLiteral == LiteralInit /\ [][GenerateRequested]_vars

\* one call of generate on a between node: the start text is a relative
\* expression (a small amount of a unit ago, a year's worth of months, or an
\* amount that leads before the first valid date) or no date at all; the
\* clock reads the ends of months and years, a leap day, and may pass
\* midnight between the two readings of the call
MaxAgo == 3

RECURSIVE Decimal(_)
Decimal(n) ==
    IF n < 10 THEN <<Digits[n + 1]>>
    ELSE Decimal(n \div 10) \o <<Digits[(n % 10) + 1]>>

Ago(n, unit) == Decimal(n) \o <<" ">> \o unit \o <<"s", " ", "a", "g", "o">>

LastMonth == <<"l", "a", "s", "t", " ", "m", "o", "n", "t", "h">>
LastYear == <<"l", "a", "s", "t", " ", "y", "e", "a", "r">>

Amounts == (0..MaxAgo) \cup {12, 2 * MaxTimeDays}

StartTexts ==
    {Ago(n, unit) : n \in Amounts, unit \in AgoUnits}
    \cup {LastMonth, LastYear, Today, <<"a">>}

EndTexts == {Today, Tomorrow}

ClockDays ==
    {DaysFromCivil(2026, 1, 31), DaysFromCivil(2026, 3, 31),
     DaysFromCivil(2024, 2, 29), DaysFromCivil(2026, 1, 1),
     DaysFromCivil(2024, 12, 31)}

DateClocks ==
    {<<Time(d, ms)>> : d \in ClockDays, ms \in {0, MsPerDay - 1}}
    \cup {<<Time(d, MsPerDay - 1), Time(d + 1, 0)>> : d \in ClockDays}

DatesInit ==
    /\ NoParserRun
    /\ gen = NewGenerator
    /\ last \in {Requested(Between(start, end), clock) :
                    start \in StartTexts, end \in EndTexts, clock \in DateClocks}
    /\ calls = [c \in {} |-> IdleCall]

SpecDates == DatesInit /\ [][GenerateRequested]_vars

\* buildDatalogQuery(generator.generate(ast), options) on a new generator:
\* the AST and the options are drawn at the start.  Every option is left
\* out or given; the values given include the limit -1, the offset 0 and
\* the empty string
BuildAsts ==
    {Tag(<<"a">>), Between(Today, Tomorrow), Between(<<"a">>, Today),
     And(<<Tag(<<"a">>), Between(Today, Tomorrow)>>),
     Or(<<Between(Today, Tomorrow), Between(Today, Tomorrow)>>),
     Or(<<Search(<<"a">>), Tag(<<"a">>)>>),
     Or(<<Tag(<<"a">>), BlockRef(<<"u">>)>>)}

BuildOptions ==
    [limit : {Absent, Given(-1), Given(0), Given(50)},
     offset : {Absent, Given(0), Given(10)},
     orderBy : {Absent, Given(""), Given("?block-uid desc")},
     pageUid : {Absent, Given(""), Given("page-uid")}]

BuildRequest(ast, options) ==
    [op |-> "build-request", ok |-> FALSE, ast |-> ast, clock |-> <<Noon>>,
     clauses |-> NoClauses, datalog |-> NoDatalog, error |-> OtherValue(""),
     options |-> options]

BuildDone(clauses) ==
    /\ last' = [last EXCEPT
                   !.op = "build",
                   !.ok = clauses.ok,
                   !.clauses = clauses,
                   !.datalog = IF clauses.ok
                               THEN BuildDatalogQuery(clauses, last.options)
                               ELSE NoDatalog,
                   !.error = IF clauses.ok THEN OtherValue("")
                             ELSE ErrorValue(clauses.name, clauses.message)]
    /\ gen' = FieldsAfter(clauses)

BuildRequested ==
    /\ last.op = "build-request"
    /\ BuildDone(Generate(last.ast, gen, last.clock))
    /\ UNCHANGED <<calls, shape, input, outcome, pstage>>

BuildInit ==
    /\ NoParserRun
    /\ gen = NewGenerator
    /\ last \in {BuildRequest(ast, options) :
                    ast \in BuildAsts, options \in BuildOptions}
    /\ calls = [c \in {} |-> IdleCall]

SpecBuild == BuildInit /\ [][BuildRequested]_vars

TagOf(t) == OpenTag \o t \o CloseTag

SrcAnd == WrapperPrefix \o <<" ">> \o OpAnd \o <<" ">> \o TagA \o <<" ">> \o RefU
          \o <<"}", "}", "}">>
SrcTag == TagA
SrcBetween == OpBetween \o <<" ">> \o TagOf(Today) \o <<" ">> \o TagOf(Tomorrow)
              \o <<"}">>
SrcBadDate == OpBetween \o <<" ">> \o TagA \o <<" ">> \o TagOf(Today) \o <<"}">>
SrcUnclosed == OpAnd \o <<" ">> \o TagA

Sources == {SrcAnd, SrcTag, SrcBetween, SrcBadDate, SrcUnclosed}

OptionSets ==
    {NoOptions,
     [NoOptions EXCEPT !.limit = Given(-1)],
     [NoOptions EXCEPT !.limit = Given(1)],
     [NoOptions EXCEPT !.limit = Given(1), !.pageUid = Given("page-uid")]}

\* rows [uid, content, pageTitle] the main query may answer with
Rows == {<<"uid1", "see ((uid2))", "Page A">>, <<"uid2", "plain", "Page B">>}

RowSeqs == SeqsUpTo(Rows, MaxRows)

\* what resolveRefs may answer for a content: the content as it is or with
\* its references expanded
Resolutions(content) == {content, content \o " [expanded]"}

\* what a count query may answer with
CountResults == {<<>>, << <<>> >>, << <<3>> >>}

\* what q or resolveRefs may reject with
Rejections == {ErrorValue("Error", "request failed"), OtherValue("timeout")}

Settled(call) == \A i \in DOMAIN call.refs : call.refs[i].state # "pending"

ExecuteBegun(c, call) ==
    /\ calls' = [calls EXCEPT ![c] = call]
    /\ gen' = GeneratorAfter(call, gen)

\* execute(queryBlock, options) up to its first await or to its return
ExecuteCall(c, sources, optionSets, clocks) ==
    /\ calls[c].pc = "idle"
    /\ \E queryBlock \in sources, options \in optionSets, clock \in clocks :
         ExecuteBegun(c, ExecuteStart([IdleCall EXCEPT !.queryBlock = queryBlock,
                                                       !.options = options,
                                                       !.clock = clock],
                                      Parse(queryBlock), gen))
    /\ UNCHANGED <<last, shape, input, outcome, pstage>>

\* the main query answers: resolveRefs is started for every row
QueryResolves(c, rowSeqs) ==
    /\ calls[c].pc = "query"
    /\ \E rows \in rowSeqs :
         calls' = [calls EXCEPT ![c] =
                    [@ EXCEPT !.pc = "resolve",
                              !.rawResults = rows,
                              !.refs = [i \in DOMAIN rows |->
                                          [state |-> "pending", content |-> ""]],
                              !.log = @ \o [i \in DOMAIN rows |->
                                              Invoked("resolveRefs", rows[i][2])]]]
    /\ UNCHANGED <<gen, last, shape, input, outcome, pstage>>

QueryRejects(c) ==
    /\ calls[c].pc = "query"
    /\ \E error \in Rejections :
         calls' = [calls EXCEPT ![c] = Fail(@, "query", error)]
    /\ UNCHANGED <<gen, last, shape, input, outcome, pstage>>

\* resolveRefs answers for row i
RefResolves(c) ==
    /\ \E i \in DOMAIN calls[c].refs :
         /\ calls[c].refs[i].state = "pending"
         /\ \E text \in Resolutions(calls[c].rawResults[i][2]) :
              calls' = [calls EXCEPT ![c].refs[i] =
                                        [state |-> "resolved", content |-> text],
                                     ![c].answered = Append(@, i)]
    /\ UNCHANGED <<gen, last, shape, input, outcome, pstage>>

\* resolveRefs rejects for row i: Promise.all rejects with the first
\* rejection; later ones are ignored
RefRejects(c) ==
    /\ \E i \in DOMAIN calls[c].refs, error \in Rejections :
         /\ calls[c].refs[i].state = "pending"
         /\ calls' = [calls EXCEPT ![c] =
                        IF @.pc = "resolve"
                        THEN Fail([@ EXCEPT !.refs[i].state = "rejected"],
                                  "resolve", error)
                        ELSE [@ EXCEPT !.refs[i].state = "rejected"]]
    /\ UNCHANGED <<gen, last, shape, input, outcome, pstage>>

\* execute after Promise.all: totalCount is the number of rows unless the
\* limit is bounded, and then a count query is built and submitted
AfterResolve(call) ==
    IF Paginated(call.options)
    THEN [call EXCEPT !.pc = "count",
                      !.log = Append(@, Invoked("q", "countQuery")),
                      !.countQuery =
                          BuildCountQuery(call.clauses, call.options.pageUid)]
    ELSE ExecuteReturn(call, Len(call.rawResults))

\* Promise.all resolved: return, or submit the count query first
AllResolved(c) ==
    /\ calls[c].pc = "resolve"
    /\ \A i \in DOMAIN calls[c].refs : calls[c].refs[i].state = "resolved"
    /\ calls' = [calls EXCEPT ![c] = AfterResolve(@)]
    /\ UNCHANGED <<gen, last, shape, input, outcome, pstage>>

CountResolves(c) ==
    /\ calls[c].pc = "count"
    /\ \E countResults \in CountResults :
         calls' = [calls EXCEPT ![c] = CountReturned(@, countResults)]
    /\ UNCHANGED <<gen, last, shape, input, outcome, pstage>>

CountRejects(c) ==
    /\ calls[c].pc = "count"
    /\ \E error \in Rejections :
         calls' = [calls EXCEPT ![c] = Fail(@, "count", error)]
    /\ UNCHANGED <<gen, last, shape, input, outcome, pstage>>

\* the caller is done with a completed call and may call again
Release(c) ==
    /\ calls[c].pc = "returned"
    /\ Settled(calls[c])
    /\ calls' = [calls EXCEPT ![c] = IdleCall]
    /\ UNCHANGED <<gen, last, shape, input, outcome, pstage>>

\* the steps of a call after its start
Continue(c, rowSeqs) ==
    \/ QueryResolves(c, rowSeqs)
    \/ QueryRejects(c)
    \/ RefResolves(c)
    \/ RefRejects(c)
    \/ AllResolved(c)
    \/ CountResolves(c)
    \/ CountRejects(c)

\* one caller
ExecInit == NoParserRun /\ ExecutorInit({"A"})

ExecNext ==
    \E c \in DOMAIN calls :
        \/ ExecuteCall(c, Sources, OptionSets, Clocks)
        \/ Continue(c, RowSeqs)

SpecExec == ExecInit /\ [][ExecNext]_vars

ParseDone(queryBlock, clock, r) ==
    /\ last' = [op |-> "parse", ok |-> r.ok, ast |-> r.ast, clock |-> clock,
                clauses |-> r.clauses, datalog |-> r.datalog, error |-> r.error]
    /\ gen' = IF r.ast = NoAst THEN gen ELSE FieldsAfter(r.clauses)

\* executor.parse(queryBlock), called directly
ParseCall(sources, clocks) ==
    \E queryBlock \in sources, clock \in clocks :
        /\ ParseDone(queryBlock, clock, ExecutorParse(queryBlock, gen, clock))
        /\ UNCHANGED <<calls, shape, input, outcome, pstage>>

\* two callers of execute and direct callers of generate and parse share
\* the generator; every call may start while others are suspended
SharedAsts == {And(<<Tag(<<"a">>), BlockRef(<<"u">>)>>), Between(Today, Tomorrow),
               Between(<<"a">>, Today)}
SharedSources == {SrcAnd, SrcBetween, SrcBadDate}
SharedOptions == {NoOptions, [NoOptions EXCEPT !.limit = Given(1)]}
SharedClocks == {<<Noon>>}
SharedRowSeqs == {<<>>}

SharedInit == NoParserRun /\ ExecutorInit({"A", "B"})

SharedNext ==
    \/ GenerateCall(SharedAsts, SharedClocks)
    \/ ParseCall(SharedSources, SharedClocks)
    \/ \E c \in DOMAIN calls :
        \/ ExecuteCall(c, SharedSources, SharedOptions, SharedClocks)
        \/ Continue(c, SharedRowSeqs)
        \/ Release(c)

SpecShared == SharedInit /\ [][SharedNext]_vars

-----------------------------------------------------------------------------
(* isQueryBlock and extractQueryBlocks.  A call of extractQueryBlocks is   *)
(* the record last: its argument text, its locals startIdx, foundIdx,      *)
(* depth and pos, the matches pushed so far, and in op the place it is at: *)
(* the test of the outer loop ("outer"), the test of the inner loop        *)
(* ("inner"), or returned ("extracted").  The record also keeps what the   *)
(* properties speak of and the code does not store: the parts the text was *)
(* put together from, and for every match the offsets <<foundIdx, pos>> it *)
(* was sliced at (spans).                                                  *)

\* /^\s*\{\{\[\[query\]\]:/i.test(text): the flag i lets the letters of
\* query match in either case
IsQueryBlock(text) == StartsWith(ToLowerCase(TrimStart(text)), WrapperPrefix)

\* text.indexOf(sub, from) for 0 <= from
IndexOfFrom(text, sub, from) ==
    LET hits == {i \in from..(Len(text) - Len(sub)) :
                    SubSeq(text, i + 1, i + Len(sub)) = sub}
    IN  IF hits = {} THEN 0 - 1
        ELSE CHOOSE i \in hits : \A j \in hits : i <= j

ExtractRequest(kind, parts) ==
    [op |-> "extract-request", kind |-> kind, parts |-> parts,
     text |-> Flatten(parts), startIdx |-> 0, foundIdx |-> 0 - 1,
     depth |-> 0, pos |-> 0, matches |-> <<>>, spans |-> <<>>]

\* extractQueryBlocks(text) up to the first test of the outer loop
ExtractBegin ==
    /\ last.op = "extract-request"
    /\ last' = [last EXCEPT !.op = "outer"]
    /\ UNCHANGED <<gen, calls, shape, input, outcome, pstage>>

\* a search that takes one opening brace as seen
ExtractFoundDepthOne(foundIdx) ==
    IF foundIdx = 0 - 1
    THEN [last EXCEPT !.op = "extracted", !.foundIdx = foundIdx]
    ELSE [last EXCEPT !.op = "inner", !.foundIdx = foundIdx, !.depth = 1,
                      !.pos = foundIdx + Len(WrapperPrefix)]

\* the outer loop from its test to the inner loop: the search for the prefix
ExtractFound(foundIdx) ==
    IF foundIdx = 0 - 1
    THEN [last EXCEPT !.op = "extracted", !.foundIdx = foundIdx]
    ELSE [last EXCEPT !.op = "inner", !.foundIdx = foundIdx, !.depth = 2,
                      !.pos = foundIdx + Len(WrapperPrefix)]

ExtractFind ==
    /\ last.op = "outer"
    /\ last' = IF last.startIdx < Len(last.text)
               THEN ExtractFound(IndexOfFrom(last.text, WrapperPrefix, last.startIdx))
               ELSE [last EXCEPT !.op = "extracted"]
    /\ UNCHANGED <<gen, calls, shape, input, outcome, pstage>>

\* one round of the inner loop
ExtractScan ==
    /\ last.op = "inner"
    /\ last.pos < Len(last.text) /\ last.depth > 0
    /\ last' = [last EXCEPT
                   !.depth = IF last.text[last.pos + 1] = "{" THEN @ + 1
                             ELSE IF last.text[last.pos + 1] = "}" THEN @ - 1
                             ELSE @,
                   !.pos = @ + 1]
    /\ UNCHANGED <<gen, calls, shape, input, outcome, pstage>>

\* a round of the outer loop that pushes the block also when it is not closed
ExtractClosedAlways ==
    [last EXCEPT !.op = "outer",
                 !.matches = Append(@, Slice(last.text, last.foundIdx, last.pos)),
                 !.spans = Append(@, <<last.foundIdx, last.pos>>),
                 !.startIdx = last.pos]

\* the end of a round of the outer loop
ExtractClosed ==
    [last EXCEPT !.op = "outer",
                 !.matches = IF last.depth = 0
                             THEN Append(@, Slice(last.text, last.foundIdx, last.pos))
                             ELSE @,
                 !.spans = IF last.depth = 0
                           THEN Append(@, <<last.foundIdx, last.pos>>)
                           ELSE @,
                 !.startIdx = last.pos]

ExtractClose ==
    /\ last.op = "inner"
    /\ ~(last.pos < Len(last.text) /\ last.depth > 0)
    /\ last' = ExtractClosed
    /\ UNCHANGED <<gen, calls, shape, input, outcome, pstage>>

\* the texts handed to extractQueryBlocks.  Block texts: prose without
\* braces around up to MaxBlocks wrapper blocks with balanced bodies, some
\* with nested operators.  Scan texts: any run of up to MaxScanPieces pieces
\* out of the prefix, the braces and a letter, closed or not.
MaxBlocks == 2
MaxScanPieces == 4

Bodies ==
    {<<" ", "a">>, <<"{", "a", "}">>, <<"{", "{", "a", "}", "a", "}">>,
     <<"{", "a", "}", "{", "}">>}

Blocks == {WrapperPrefix \o body \o <<"}", "}">> : body \in Bodies}

Proses == {<<>>, <<"a", " ">>}

\* the parts of a block text: prose, block, prose, ..., prose
BlockParts ==
    UNION {{[i \in 1..(2 * k + 1) |-> IF i % 2 = 1 THEN ps[(i + 1) \div 2]
                                      ELSE bs[i \div 2]] :
                ps \in [1..(k + 1) -> Proses], bs \in [1..k -> Blocks]} :
           k \in 0..MaxBlocks}

ScanPieces == {WrapperPrefix, <<"{">>, <<"}">>, <<"a">>}

ExtractRequests ==
    {ExtractRequest("blocks", parts) : parts \in BlockParts}
    \cup {ExtractRequest("scan", ps) : ps \in SeqsUpTo(ScanPieces, MaxScanPieces)}

ExtractInit ==
    /\ NoParserRun
    /\ gen = NewGenerator
    /\ last \in ExtractRequests
    /\ calls = [c \in {} |-> IdleCall]

ExtractNext == ExtractBegin \/ ExtractFind \/ ExtractScan \/ ExtractClose

SpecExtract == ExtractInit /\ [][ExtractNext]_vars

\* a call that is not suspended anywhere runs on
SpecExtractFair == SpecExtract /\ WF_vars(ExtractNext)

\* isQueryBlock(text) on texts with and without leading white space, with
\* the prefix as written, in other case, cut short, or absent
PrefixForms ==
    {WrapperPrefix,
     <<"{", "{", "[", "[", "Q", "u", "e", "r", "y", "]", "]", ":">>,
     <<"{", "{", "[", "[", "Q", "U", "E", "R", "Y", "]", "]", ":">>,
     <<"{", "{", "[", "[", "q", "u", "e", "r", "y", "]", "]">>,
     <<"{", "[", "[", "q", "u", "e", "r", "y", "]", "]", ":">>,
     <<>>}

DetectTexts ==
    {lead \o form \o tail :
        lead \in SeqsUpTo({" ", "\n", "a"}, 2),
        form \in PrefixForms,
        tail \in {<<>>, <<" ">> \o TagA \o <<"}", "}">>}}

DetectRequest(text) ==
    [op |-> "detect-request", text |-> text, isQueryBlock |-> FALSE,
     blocks |-> <<>>, expression |-> <<>>]

\* the matches extractQueryBlocks returns for a text
RECURSIVE ExtractFrom(_, _)
RECURSIVE ExtractScanFrom(_, _, _, _)
ExtractScanFrom(text, foundIdx, depth, pos) ==
    IF pos < Len(text) /\ depth > 0
    THEN ExtractScanFrom(text, foundIdx,
                         IF text[pos + 1] = "{" THEN depth + 1
                         ELSE IF text[pos + 1] = "}" THEN depth - 1 ELSE depth,
                         pos + 1)
    ELSE (IF depth = 0 THEN <<Slice(text, foundIdx, pos)>> ELSE <<>>)
         \o ExtractFrom(text, pos)

ExtractFoundFrom(text, foundIdx) ==
    IF foundIdx = 0 - 1 THEN <<>>
    ELSE ExtractScanFrom(text, foundIdx, 2, foundIdx + Len(WrapperPrefix))

ExtractFrom(text, startIdx) ==
    IF startIdx < Len(text)
    THEN ExtractFoundFrom(text, IndexOfFrom(text, WrapperPrefix, startIdx))
    ELSE <<>>

ExtractQueryBlocks(text) == ExtractFrom(text, 0)

\* a caller asks of a text whether it is a query block, which blocks it
\* holds and which expression the parser takes from it
DetectCall ==
    /\ last.op = "detect-request"
    /\ last' = [last EXCEPT !.op = "detected",
                            !.isQueryBlock = IsQueryBlock(last.text),
                            !.blocks = ExtractQueryBlocks(last.text),
                            !.expression = ExtractQueryExpression(last.text)]
    /\ UNCHANGED <<gen, calls, shape, input, outcome, pstage>>

DetectInit ==
    /\ NoParserRun
    /\ gen = NewGenerator
    /\ last \in {DetectRequest(text) : text \in DetectTexts}
    /\ calls = [c \in {} |-> IdleCall]

SpecDetect == DetectInit /\ [][DetectCall]_vars

-----------------------------------------------------------------------------
(* Properties of the parser *)

Called == pstage # "start"

\* sub occurs in s as a contiguous run of characters
Occurs(sub, s) ==
    \E i \in 1..(Len(s) - Len(sub) + 1) : SubSeq(s, i, i + Len(sub) - 1) = sub

\* the source text opens a tag, a block reference, an operator or a quoted
\* name and holds no closer of that kind anywhere after the opener
UnclosedOpener(s) ==
    LET t == Trim(s) IN
    \/ StartsWith(t, OpenTag) /\ ~Occurs(CloseTag, t)
    \/ StartsWith(t, OpenRef) /\ ~Occurs(CloseRef, t)
    \/ StartsWith(t, <<"{">>) /\ ~Occurs(<<"}">>, t)
    \/ StartsWith(t, Quote) /\ ~Occurs(Quote, Tail(t))

\* C3: a source text whose tag, block-reference, operator or quote opener has
\* no matching closer before the end of the input raises a parse error and
\* never yields an AST.
C3_UnclosedOpenerRaises ==
    (Called /\ UnclosedOpener(input)) => ~outcome.ok

\* the part of C3 the code keeps: unclosed [[ , { and " openers do raise
C3_UnclosedExceptBlockRef ==
    (Called /\ UnclosedOpener(input) /\ ~StartsWith(Trim(input), OpenRef))
        => (~outcome.ok /\ outcome.kind = "QueryParseError")

\* what parseQueryWithName has in hand once the first expression is parsed:
\* the expression text, the parse of the optional name and of the expression
FirstExpression(in) ==
    LET s == ExtractQueryExpression(in)
        p0 == SkipWhitespace(s, 0)
        nm == IF Peek(s, p0) = "\"" THEN ParseQuotedString(s, p0) ELSE Ok(p0, <<>>)
    IN  IF ~nm.ok THEN [ok |-> FALSE, s |-> s, pos |-> 0]
        ELSE LET q == ParseExpression(s, SkipWhitespace(s, nm.pos)) IN
             [ok |-> q.ok, s |-> s, pos |-> q.pos]

\* C4: an AST is returned only if the whole expression was consumed; when
\* non-whitespace content remains after the optional name and the first
\* complete expression, a parse error is raised whose offset is the first
\* unconsumed non-whitespace character.
C4_TrailingContentRaises ==
    Called =>
        LET f == FirstExpression(input)
            r == SkipWhitespace(f.s, f.pos)
        IN  /\ (outcome.ok /\ pstage = "parseWithName")
                => (outcome.pos = Len(outcome.expr) /\ f.ok /\ r = Len(f.s))
            /\ (f.ok /\ r < Len(f.s))
                => /\ ~outcome.ok
                   /\ outcome.kind = "QueryParseError"
                   /\ outcome.pos = r
                   /\ f.s[r + 1] \notin Whitespace
                   /\ \A i \in (f.pos + 1)..r : f.s[i] \in Whitespace

\* [[a]] [[a]]: a second top-level expression is rejected at offset 6
C4_Witness ==
    /\ pstage = "parseWithName"
    /\ shape.fam = "wrap" /\ ~shape.wrapped
    /\ input = TagA \o <<" ">> \o TagA
    /\ ~outcome.ok
    /\ outcome.msg = "Unexpected content after query"
    /\ outcome.pos = 6

RECURSIVE AndOrNonEmpty(_)
AndOrNonEmpty(n) ==
    CASE n.type \in {"and", "or"} ->
            /\ Len(n.children) >= 1
            /\ \A i \in DOMAIN n.children : AndOrNonEmpty(n.children[i])
      [] n.type = "not" -> AndOrNonEmpty(n.child)
      [] OTHER -> TRUE

\* the complete expressions among the arguments of an "op" shape
ArgsOf(sh) == SelectSeq(sh.parts, LAMBDA a : a # <<" ">>)

ArgNode(a) ==
    CASE a = TagA -> [type |-> "tag", value |-> <<"a">>]
      [] a = RefU -> [type |-> "block-ref", uid |-> <<"u">>]
      [] a = NotA -> [type |-> "not", child |-> [type |-> "tag", value |-> <<"a">>]]

\* the node the nine-operator grammar gives {op: args}, or none
ArityNode(sh) ==
    LET args == ArgsOf(sh) IN
    CASE sh.op \in {OpAnd, OpOr} /\ Len(args) >= 1 ->
            [ok |-> TRUE,
             query |-> [type |-> IF sh.op = OpAnd THEN "and" ELSE "or",
                        children |-> [i \in DOMAIN args |-> ArgNode(args[i])]]]
      [] sh.op = OpNot /\ Len(args) = 1 ->
            [ok |-> TRUE, query |-> [type |-> "not", child |-> ArgNode(args[1])]]
      [] sh.op = OpBetween /\ args = <<TagA, TagA>> ->
            [ok |-> TRUE, query |-> [type |-> "between", startDate |-> <<"a">>,
                                     endDate |-> <<"a">>]]
      [] OTHER -> [ok |-> FALSE]

\* C5: operator arity is enforced: every and/or node of a returned AST has at
\* least one child and an empty and/or raises; not is accepted only with
\* exactly one expression, between only with exactly two tags in sequence;
\* an operator name outside the nine listed ones raises a parse error.
C5_OperatorArity ==
    Called =>
        /\ outcome.ok => AndOrNonEmpty(outcome.query)
        /\ (shape.fam = "op" /\ shape.op \in ArityOps) =>
            /\ outcome.ok = ArityNode(shape).ok
            /\ outcome.ok => outcome.query = ArityNode(shape).query
            /\ ~outcome.ok => outcome.kind = "QueryParseError"

\* {not: [[a]] ((u))} is rejected
C5_Witness ==
    /\ Called
    /\ shape.fam = "op" /\ shape.op = OpNot /\ ArgsOf(shape) = <<TagA, RefU>>
    /\ ~outcome.ok

RECURSIVE PayloadsNonEmpty(_)
PayloadsNonEmpty(n) ==
    CASE n.type = "tag" -> n.value # <<>>
      [] n.type = "block-ref" -> n.uid # <<>>
      [] n.type \in {"by", "created-by", "edited-by"} -> n.user # <<>>
      [] n.type \in {"and", "or"} ->
            \A i \in DOMAIN n.children : PayloadsNonEmpty(n.children[i])
      [] n.type = "not" -> PayloadsNonEmpty(n.child)
      [] OTHER -> TRUE

\* C6: every AST the parser returns has non-empty tag values, block-reference
\* uids and users; an empty or blank payload ([[]], [[ ]], (( )), {by: })
\* produces no node.
C6_PayloadsNonEmpty ==
    (Called /\ outcome.ok) => PayloadsNonEmpty(outcome.query)

\* C7: wrapper stripping preserves the query: {{[[query]]: e}} with any white
\* space around e parses to the AST of the bare expression e with an undefined
\* name, {{[[query]]: "n" e}} to the same AST with name n, parse() returns only
\* that AST, and a bare expression is parsed as it stands.
C7_WrapperPreservesQuery ==
    Called =>
        /\ shape.fam = "wrap" =>
            LET bare == ParseWithName(Flatten(shape.parts)) IN
            bare.ok =>
                /\ bare.name = NoName
                /\ pstage = "parseWithName" =>
                    (outcome.ok /\ outcome.query = bare.query
                     /\ outcome.name = shape.name)
                /\ pstage = "parse" => outcome = [ok |-> TRUE, query |-> bare.query]
        /\ (~(shape.fam = "wrap" /\ shape.wrapped) /\ pstage = "parseWithName")
            => outcome.expr = Trim(input)

\* {{[[query]]: "My Q" {and:[[a]]}}} parses to the and node, named My Q
C7_Witness ==
    /\ pstage = "parseWithName"
    /\ shape.fam = "wrap" /\ shape.wrapped
    /\ shape.name = [def |-> TRUE, val |-> <<"M", "y", " ", "Q">>]
    /\ shape.parts = <<OpAnd, TagA, <<"}">> >>
    /\ shape.lead = <<" ", "\n">>
    /\ outcome.ok
    /\ outcome.name.def /\ outcome.name.val = <<"M", "y", " ", "Q">>
    /\ outcome.query = [type |-> "and",
                        children |-> <<[type |-> "tag", value |-> <<"a">>]>>]

\* depth of [[ ]] nesting after the pieces ps, or -1 once a ]] had no opener
RECURSIVE NestingAfter(_, _)
NestingAfter(ps, d) ==
    IF d < 0 \/ ps = <<>> THEN d
    ELSE NestingAfter(Tail(ps), IF Head(ps) = OpenTag THEN d + 1
                                ELSE IF Head(ps) = CloseTag THEN d - 1
                                ELSE d)

\* a title: non-empty, trimmed, of ordinary characters and balanced [[ ]] pairs
IsTitle(ps) ==
    /\ Flatten(ps) # <<>>
    /\ Trim(Flatten(ps)) = Flatten(ps)
    /\ NestingAfter(ps, 0) = 0

\* C8: for a non-empty trimmed title t of ordinary characters and balanced
\* [[ ]] pairs, [[t]] parses to exactly the tag node with value t, and the tag
\* ends at the ]] that brings the nesting depth back to zero (the last one).
C8_TagRoundTrip ==
    (Called /\ shape.fam = "title" /\ IsTitle(shape.parts)) =>
        /\ outcome.ok
        /\ outcome.query = [type |-> "tag", value |-> Flatten(shape.parts)]
        /\ pstage = "parseWithName" => outcome.pos = Len(input)

\* [[a [[a]]/a]]
C8_Witness ==
    /\ pstage = "parseWithName"
    /\ shape.fam = "title"
    /\ shape.parts = << <<"a">>, OpenTag, <<"a">>, CloseTag, <<"/">> >>
    /\ outcome.ok
    /\ outcome.query.value = <<"a", "[", "[", "a", "]", "]", "/">>

\* the offset in the source text at which the expression the parser runs on
\* starts: after the leading white space and, in wrapper form, after the
\* prefix and the white space that follows it
ExpressionOffset(in) ==
    LET lead == Len(in) - Len(TrimStart(in))
        trimmed == Trim(in)
        middle == Slice(trimmed, Len(WrapperPrefix), Len(trimmed) - 2)
        group == FullMatchGroup(trimmed)
    IN  IF FullMatch(trimmed)
        THEN lead + Len(WrapperPrefix) + (Len(middle) - Len(group))
             + (Len(group) - Len(TrimStart(group)))
        ELSE lead

\* C23: a parse error carries an offset p with 0 <= p <= length of the
\* source text, and p is the offset of the violation in the source text as
\* the caller supplied it: the offset of the violation within the
\* expression plus the offset at which the expression starts in the source.
C23_OffsetInSuppliedText ==
    (Called /\ ~outcome.ok) =>
        /\ outcome.kind = "QueryParseError"
        /\ 0 <= outcome.pos /\ outcome.pos <= Len(input)
        /\ outcome.pos = ExpressionOffset(input)
                         + ParseWithName(ExtractQueryExpression(input)).pos

\* the offset every parse error carries is one of the expression the parser
\* runs on, the source text without wrapper and surrounding white space
C23_OffsetInExpression ==
    (Called /\ ~outcome.ok) =>
        /\ outcome.kind = "QueryParseError"
        /\ 0 <= outcome.pos
        /\ outcome.pos <= Len(ExtractQueryExpression(input))
        /\ Len(ExtractQueryExpression(input)) <= Len(input)

\* {{[[query]]:[[a]] [[a]]}}: the second tag is at offset 18 of the source
\* and the error carries 6
C23_WrappedOffset ==
    /\ pstage = "parseWithName"
    /\ input = WrapperPrefix \o TagA \o <<" ">> \o TagA \o <<"}", "}">>
    /\ ~outcome.ok
    /\ outcome.msg = "Unexpected content after query"
    /\ outcome.pos = 6
    /\ ExpressionOffset(input) = 12

\* a parsing routine started at offset p of a text of n characters ended at
\* r: beyond p when it returned, at or beyond p with a QueryParseError when
\* it raised, and never beyond n
Consumes(r, p, n) ==
    /\ r.pos <= n
    /\ IF r.ok THEN r.pos > p ELSE r.pos >= p /\ r.kind = "QueryParseError"

\* a loop started at p ended at r having read one item per character at
\* least
LoopConsumes(r, p, n) ==
    /\ p <= r.pos /\ r.pos <= n
    /\ r.ok => Len(r.val) <= r.pos - p
    /\ ~r.ok => r.kind = "QueryParseError"

ExpectConsumes(r, p, n) ==
    /\ r.pos <= n
    /\ IF r.ok THEN r.pos = p + 1 ELSE r.pos = p /\ r.kind = "QueryParseError"

\* C30: the parser ends on every text with a ParseResult or a
\* QueryParseError and a position within the expression it ran on;
\* started at any offset of that expression, parseExpression consumes at
\* least one character or raises, the loops of parseAndOr, parseIdentifier
\* and skipWhitespace move forward one character at least per item and stop
\* at the end of the text, and expect consumes exactly one character or
\* raises.  parse runs the same parser on the same expression and drops the
\* position from what it returns.
C30_ParserTerminates ==
    LET e == ExtractQueryExpression(input) IN
    /\ Called =>
        /\ outcome.ok \/ outcome.kind = "QueryParseError"
        /\ ~outcome.ok => outcome.pos \in 0..Len(e)
    /\ pstage = "parseWithName" =>
        /\ outcome.pos \in 0..Len(e)
        /\ \A p \in 0..Len(e) :
             /\ Consumes(ParseExpression(e, p), p, Len(e))
             /\ LoopConsumes(ParseAndOrLoop(e, p, <<>>), p, Len(e))
             /\ LoopConsumes(ParseIdentifier(e, p), p, Len(e))
             /\ SkipWhitespace(e, p) \in p..Len(e)
             /\ \A c \in {"{", "}", ":", "[", "("} :
                  ExpectConsumes(Expect(e, p, c), p, Len(e))

\* {and:[[a]]{not: [[a]]}}: parseExpression calls itself for the two
\* children and for the child of not, and the parse ends at the end of the
\* text
C30_Witness ==
    /\ pstage = "parseWithName"
    /\ input = OpAnd \o TagA \o NotA \o <<"}">>
    /\ outcome.ok
    /\ outcome.pos = Len(input)
    /\ outcome.query = And(<<Tag(<<"a">>), Not(Tag(<<"a">>))>>)
    /\ ParseExpression(input, Len(OpAnd \o TagA)).pos = Len(input) - 1

-----------------------------------------------------------------------------
(* Properties of the generator *)

BinderTokens == {" :node/title \"", " :block/uid \""}

\* the variables a token sequence binds to a page title or a block uid, in
\* the order they occur
RECURSIVE Binders(_)
Binders(tokens) ==
    IF Len(tokens) < 2 THEN <<>>
    ELSE (IF tokens[2] \in BinderTokens THEN <<tokens[1]>> ELSE <<>>)
         \o Binders(Tail(tokens))

RECURSIVE RefLeaves(_)
RECURSIVE RefLeavesOf(_)
\* the tag and block-ref nodes of an AST in traversal order
RefLeaves(node) ==
    CASE node.type \in {"tag", "block-ref"} -> <<node>>
      [] node.type \in {"and", "or"} -> RefLeavesOf(node.children)
      [] node.type = "not" -> RefLeaves(node.child)
      [] OTHER -> <<>>
RefLeavesOf(nodes) ==
    IF nodes = <<>> THEN <<>> ELSE RefLeaves(Head(nodes)) \o RefLeavesOf(Tail(nodes))

\* C9: within one top-level generate call the binding variables of the tag
\* and block-reference nodes are pairwise distinct, whatever the tag texts
\* and the nesting, and the k-th such node in traversal order gets the
\* variable numbered k - 1.
C9_BindersDistinct ==
    (last.op = "generate" /\ last.ok) =>
        LET b == Binders(Flatten(last.clauses.where))
            leaves == RefLeaves(last.ast)
        IN  /\ \A i, j \in DOMAIN b : i # j => b[i] # b[j]
            /\ Len(b) = Len(leaves)
            /\ \A k \in DOMAIN b :
                 b[k] = (IF leaves[k].type = "tag" THEN "?ref-" ELSE "?block-ref-")
                        \o ToString(k - 1)

\* {or: {and: [[a]] ((u))} {not: [[a]]}} binds ?ref-0, ?block-ref-1, ?ref-2
C9_Witness ==
    /\ last.op = "generate"
    /\ last.ast = Or(<<And(<<Tag(<<"a">>), BlockRef(<<"u">>)>>), Not(Tag(<<"a">>))>>)
    /\ last.ok
    /\ Binders(Flatten(last.clauses.where)) = <<"?ref-0", "?block-ref-1", "?ref-2">>

\* what a generator just constructed produces for an AST
Fresh(ast, clock) == Generate(ast, NewGenerator, clock)

StartsAtZero(clauses) ==
    LET b == Binders(Flatten(clauses.where)) IN
    /\ b # <<>> => b[1] \in {"?ref-0", "?block-ref-0"}
    /\ clauses.inputs # <<>> => clauses.inputs[1] = "?start-date-0"

FreshInCall(call) ==
    call.ast # NoAst =>
        /\ call.clauses = Fresh(call.ast, call.clock)
        /\ call.clauses.ok =>
            /\ StartsAtZero(call.clauses)
            /\ call.datalog = BuildDatalogQuery(Fresh(call.ast, call.clock),
                                                ExecuteOptions(call.options))
            /\ call.pc = "count" =>
                 call.countQuery = BuildCountQuery(Fresh(call.ast, call.clock),
                                                   call.options.pageUid)

FreshInLast ==
    last.ast # NoAst =>
        /\ last.clauses = Fresh(last.ast, last.clock)
        /\ last.clauses.ok => StartsAtZero(last.clauses)
        /\ (last.op = "parse" /\ last.ok) =>
             last.datalog = BuildDatalogQuery(Fresh(last.ast, last.clock), NoOptions)

\* C10: whatever calls of generate, QueryExecutor.parse and execute ran or
\* are suspended on the one generator, the clauses and the queries a call
\* produced for its AST are those of a generator just constructed, numbered
\* from 0.
C10_NoCounterStateSurvives ==
    /\ FreshInLast
    /\ \A c \in DOMAIN calls : FreshInCall(calls[c])

\* A awaits its count query, B its main query, and generate was called
\* directly, each on {and: [[a]] ((u))}
C10_Witness ==
    /\ DOMAIN calls = {"A", "B"}
    /\ calls["A"].pc = "count" /\ calls["A"].queryBlock = SrcAnd
    /\ calls["B"].pc = "query" /\ calls["B"].queryBlock = SrcAnd
    /\ last.op = "generate" /\ last.ast = And(<<Tag(<<"a">>), BlockRef(<<"u">>)>>)
    /\ Binders(Flatten(calls["B"].clauses.where)) = <<"?ref-0", "?block-ref-1">>
    /\ gen.refCounter = 2

\* the clauses generated for children from child i on, one after the other,
\* the first from the counters in ctx; the list ends at a child that throws
RECURSIVE ChildrenFrom(_, _, _, _, _)
ChildrenNext(children, i, clock, acc, r) ==
    IF ~r.ok THEN Append(acc, r)
    ELSE ChildrenFrom(children, i + 1, r.ctx, clock, Append(acc, r))
ChildrenFrom(children, i, ctx, clock, acc) ==
    IF i > Len(children) THEN acc
    ELSE ChildrenNext(children, i, clock, acc,
                      GenerateNode(children[i], "?b", ctx, clock))

ChildrenOf(node) ==
    CASE node.type \in {"and", "or"} -> node.children
      [] node.type = "not" -> <<node.child>>
      [] OTHER -> <<>>

\* texts joined by a separator
RECURSIVE JoinText(_, _)
JoinText(texts, sep) ==
    IF texts = <<>> THEN ""
    ELSE IF Len(texts) = 1 THEN texts[1]
    ELSE texts[1] \o sep \o JoinText(Tail(texts), sep)

\* the fragments of a child as the text of one branch
BranchText(where) ==
    IF Len(where) = 1 THEN Text(where[1])
    ELSE "(and " \o JoinText([i \in DOMAIN where |-> Text(where[i])], " ") \o ")"

\* what the claims say of the clauses r of a node whose children gave kids
NodeShape(node, r, kids) ==
    LET inputs == Flatten([k \in DOMAIN kids |-> kids[k].inputs])
        inputValues == Flatten([k \in DOMAIN kids |-> kids[k].inputValues])
        branches == [k \in DOMAIN kids |-> BranchText(kids[k].where)]
    IN  CASE node.type = "or" ->
                /\ Len(r.where) = 1
                /\ Text(r.where[1]) = "(or-join [?b] " \o JoinText(branches, " ") \o ")"
                /\ r.inputs = inputs /\ r.inputValues = inputValues
          [] node.type = "not" ->
                /\ Len(r.where) = 1
                /\ Text(r.where[1]) = "(not " \o branches[1] \o ")"
                /\ r.inputs = inputs /\ r.inputValues = inputValues
          [] node.type = "and" ->
                /\ r.where = Flatten([k \in DOMAIN kids |-> kids[k].where])
                /\ r.inputs = inputs /\ r.inputValues = inputValues
                /\ Len(r.where) = Len(Flatten([k \in DOMAIN kids |->
                                                [j \in DOMAIN kids[k].where |-> 1]]))
          [] OTHER -> TRUE

\* NodeShape at every node of one of the types that generate reaches below
\* node, each with the counters generate has when it gets there
RECURSIVE NodesShaped(_, _, _, _)
NodesShapedBelow(node, ctx, clock, types, r, kids) ==
    /\ (r.ok /\ node.type \in types) => NodeShape(node, r, kids)
    /\ \A k \in DOMAIN kids :
         NodesShaped(ChildrenOf(node)[k],
                     IF k = 1 THEN ctx ELSE kids[k - 1].ctx, clock, types)
NodesShaped(node, ctx, clock, types) ==
    NodesShapedBelow(node, ctx, clock, types,
                     GenerateNode(node, "?b", ctx, clock),
                     ChildrenFrom(ChildrenOf(node), 1, ctx, clock, <<>>))

\* C11: an or node and a not node each generate exactly one fragment: a child
\* with one fragment is used as it is, a child with several is wrapped in
\* (and ...); or joins its branches in child order in (or-join [?b] ...),
\* not wraps its branch in (not ...); inputs and input values are those of
\* the children, in child order.
C11_OrNotOneFragment ==
    (last.op = "generate" /\ last.ok) =>
        /\ last.ast.type \in {"or", "not"} => Len(last.clauses.where) = 1
        /\ NodesShaped(last.ast, Context(0, 0, 0), last.clock, {"or", "not"})

\* {or: {between: [[today]] [[tomorrow]]} [[a]]}: two (and ...) branches in
\* one or-join, the two inputs of the between propagated
C11_Witness ==
    /\ last.op = "generate" /\ last.ok
    /\ last.ast = Or(<<Between(Today, Tomorrow), Tag(<<"a">>)>>)
    /\ Len(last.clauses.where) = 1
    /\ Text(last.clauses.where[1]) =
         "(or-join [?b] (and [?b :create/time ?create-time] [(>= ?create-time ?start-date-0)] [(<= ?create-time ?end-date-1)]) (and [?ref-0 :node/title \"a\"] [?b :block/refs ?ref-0]))"
    /\ last.clauses.inputs = <<"?start-date-0", "?end-date-1">>

\* C12: for an and node the where, inputs and inputValues lists are the
\* concatenations, in child order, of its children's lists, so its fragment
\* count is the sum of theirs.
C12_AndConcatenates ==
    (last.op = "generate" /\ last.ok) =>
        NodesShaped(last.ast, Context(0, 0, 0), last.clock, {"and"})

\* {and: [[a]] [[b]]} has four fragments
C12_Witness ==
    /\ last.op = "generate" /\ last.ok
    /\ last.ast = And(<<Tag(<<"a">>), Tag(<<"b">>)>>)
    /\ [i \in 1..4 |-> Text(last.clauses.where[i])] =
         <<"[?ref-0 :node/title \"a\"]", "[?b :block/refs ?ref-0]",
           "[?ref-1 :node/title \"b\"]", "[?b :block/refs ?ref-1]">>
    /\ Len(last.clauses.where) = 4

\* the text an escaped text stands for: a backslash gives the character after
\* it
RECURSIVE Unescape(_)
Unescape(e) ==
    IF e = <<>> THEN <<>>
    ELSE IF e[1] = "\\" /\ Len(e) >= 2 THEN <<e[2]>> \o Unescape(SubSeq(e, 3, Len(e)))
    ELSE <<e[1]>> \o Unescape(Tail(e))

\* the offset in e of the first double quote no backslash escapes, Len(e)
\* when there is none
RECURSIVE FirstUnescapedQuote(_, _)
FirstUnescapedQuote(e, p) ==
    IF p >= Len(e) THEN Len(e)
    ELSE IF e[p + 1] = "\\" THEN FirstUnescapedQuote(e, p + 2)
    ELSE IF e[p + 1] = "\"" THEN p
    ELSE FirstUnescapedQuote(e, p + 1)

\* the template pieces that end with the opening quote of a literal, and
\* those that start with its closing quote
QuoteOpeners ==
    {" :node/title \"", " :block/uid \"", " :user/display-name \"",
     "[(clojure.string/includes? ?block-str \"",
     " :create/user ?by-creator]\n             [?by-creator :user/display-name \"",
     " :edit/user ?by-editor]\n             [?by-editor :user/display-name \""}
QuoteClosers == {"\"]", "\")]", "\"])\n        (and [", "\"]))"}

LiteralOf(node) ==
    CASE node.type = "tag" -> node.value
      [] node.type = "block-ref" -> node.uid
      [] node.type = "search" -> node.text
      [] OTHER -> node.user

\* the offsets of the opening-quote pieces in a token sequence
OpenersIn(tokens) == {i \in DOMAIN tokens : tokens[i] \in QuoteOpeners}

\* C13: the literal of a tag, block reference, search or user node is
\* embedded escaped: between the opening and the closing quote stands a text
\* in which every double quote is escaped and whose un-escaping is the
\* literal, whatever backslashes and quotes the literal holds.
C13_LiteralsEscaped ==
    (last.op = "generate" /\ last.ok /\ last.ast.type # "between") =>
        LET tokens == Flatten(last.clauses.where)
            literal == LiteralOf(last.ast)
        IN  /\ Cardinality(OpenersIn(tokens)) = (IF last.ast.type = "by" THEN 2 ELSE 1)
            /\ \A i \in OpenersIn(tokens) :
                 \E e \in SeqsUpTo({"a", "\\", "\""}, 2 * Len(literal)) :
                    /\ tokens[i + 1] = Str(e)
                    /\ tokens[i + 2] \in QuoteClosers
                    /\ FirstUnescapedQuote(e \o <<"\"">>, 0) = Len(e)
                    /\ Unescape(e) = literal

\* the tag \" is embedded as \\\"
C13_Witness ==
    /\ last.op = "generate" /\ last.ok
    /\ last.ast = Tag(<<"\\", "\"">>)
    /\ Text(last.clauses.where[1]) = "[?ref-0 :node/title \"\\\\\\\"\"]"

\* a is a number and so is b, and b - a >= n * 24 * 60 * 60 * 1000
DaysApart(a, b, n) ==
    /\ a # InvalidDate /\ b # InvalidDate
    /\ \/ b.day - a.day > n
       \/ b.day - a.day = n /\ b.ms >= a.ms

\* a < b as numbers
Earlier(a, b) ==
    /\ a # InvalidDate /\ b # InvalidDate
    /\ a.day < b.day \/ (a.day = b.day /\ a.ms < b.ms)

\* the between nodes generate returned clauses for
BetweenGenerated ==
    last.op = "generate" /\ last.ok /\ last.ast.type = "between"

\* what the two resolutions of a between's dates return, each at its own
\* clock reading
StartResolved == RoamDateToTimestamp(last.ast.startDate, ClockAt(last.clock, 1))
EndResolved == RoamDateToTimestamp(last.ast.endDate, ClockAt(last.clock, 2))

StartAgo == AgoMatch(Trim(ToLowerCase(last.ast.startDate)))

\* the three fragments, the two input variables and the two values of a
\* between
BetweenShape ==
    /\ last.clauses.where =
         << <<"[", "?b", " :create/time ?create-time]">>,
            <<"[(>= ?create-time ", "?start-date-0", ")]">>,
            <<"[(<= ?create-time ", "?end-date-1", ")]">> >>
    /\ last.clauses.inputs = <<"?start-date-0", "?end-date-1">>
    /\ last.clauses.inputValues =
         <<StartResolved.time, AddMs(EndResolved.time, MsPerDay - 1)>>

\* C14: a between gives the creation-time binding, the >= start and the
\* <= end constraint and two input variables, the start value being the
\* resolved start and the end value the resolved end plus 24h - 1ms; and
\* from "N days ago" to "today" the end value is at least N days after the
\* start value, for every N.
C14_BetweenRange ==
    BetweenGenerated =>
        /\ BetweenShape
        /\ (StartAgo.def /\ StartAgo.unit = "day" /\ last.ast.endDate = Today) =>
              DaysApart(last.clauses.inputValues[1], last.clauses.inputValues[2],
                        StartAgo.amount)

\* the same where the start value is a number
C14_BetweenRangeOfValidStart ==
    BetweenGenerated =>
        /\ BetweenShape
        /\ (/\ StartAgo.def /\ StartAgo.unit = "day" /\ last.ast.endDate = Today
            /\ last.clauses.inputValues[1] # InvalidDate) =>
              DaysApart(last.clauses.inputValues[1], last.clauses.inputValues[2],
                        StartAgo.amount)

\* 3 days before 2026-03-31 up to its last millisecond
C14_Witness ==
    /\ BetweenGenerated
    /\ last.ast = Between(Ago(3, <<"d", "a", "y">>), Today)
    /\ last.clock = <<Time(DaysFromCivil(2026, 3, 31), 0)>>
    /\ last.clauses.inputValues =
         <<Time(DaysFromCivil(2026, 3, 28), 0),
           Time(DaysFromCivil(2026, 3, 31), MsPerDay - 1)>>

\* 200000000 days ago is no date: the start value is NaN
C14_NaNStart ==
    /\ BetweenGenerated
    /\ last.ast = Between(Ago(2 * MaxTimeDays, <<"d", "a", "y">>), Today)
    /\ last.clauses.inputValues[1] = InvalidDate
    /\ last.clauses.inputValues[2] # InvalidDate

\* the number of months the start text of the between goes back: a month,
\* a year, or N months; -1 for any other text
MonthsBack ==
    LET text == Str(Trim(ToLowerCase(last.ast.startDate))) IN
    CASE text = "last month" -> 1
      [] text = "last year" -> 12
      [] StartAgo.def /\ StartAgo.unit = "month" -> StartAgo.amount
      [] OTHER -> 0 - 1

\* the day the calendar reaches from today by going back that many months
\* and keeping the day of the month, days past the end of the month running
\* on into the next
CalendarMonthsBack(now, months) ==
    LET c == CivilFromDays(now.day)
        target == c.year * 12 + c.month - months
    IN  Time(DaysFromCivil(target \div 12, (target % 12) + 1, 1) + c.date - 1, 0)

\* C15: "last month", "last year" and "N months ago" go back by months of
\* the calendar, not by a fixed number of days, and give a time strictly
\* before the start of today, so that a between from there to "today" has
\* start < end.
C15_MonthsByCalendar ==
    (BetweenGenerated /\ MonthsBack >= 0) =>
        LET now == ClockAt(last.clock, 1)
            start == last.clauses.inputValues[1]
        IN  /\ Earlier(start, Time(now.day, 0))
            /\ start = CalendarMonthsBack(now, MonthsBack)
            /\ last.ast.endDate = Today =>
                  Earlier(start, last.clauses.inputValues[2])

\* the same for one month or more, where the start value is a number
C15_MonthsByCalendarFromOne ==
    (/\ BetweenGenerated /\ MonthsBack >= 1
     /\ last.clauses.inputValues[1] # InvalidDate) =>
        LET now == ClockAt(last.clock, 1)
            start == last.clauses.inputValues[1]
        IN  /\ Earlier(start, Time(now.day, 0))
            /\ start = CalendarMonthsBack(now, MonthsBack)
            /\ last.ast.endDate = Today =>
                  Earlier(start, last.clauses.inputValues[2])

\* on 2026-01-31 last month is 2025-12-31
C15_Witness ==
    /\ BetweenGenerated
    /\ last.ast = Between(LastMonth, Today)
    /\ last.clock = <<Time(DaysFromCivil(2026, 1, 31), 0)>>
    /\ last.clauses.inputValues[1] = Time(DaysFromCivil(2025, 12, 31), 0)

\* "0 months ago" is the start of today, not before it
C15_ZeroMonths ==
    /\ BetweenGenerated
    /\ last.ast = Between(Ago(0, <<"m", "o", "n", "t", "h">>), Today)
    /\ last.clauses.inputValues[1] = Time(ClockAt(last.clock, 1).day, 0)

\* the first place of a token in a query
IndexOf(tokens, token) ==
    CHOOSE i \in DOMAIN tokens :
        tokens[i] = token /\ \A j \in 1..(i - 1) : tokens[j] # token

\* the line of a main query that starts with :in, up to the end of the line
InLine(query) ==
    SubSeq(query, IndexOf(query, ":in $"),
           IndexOf(query, "\n                  :where\n                  ") - 1)

\* what follows :where in a main query
WherePart(query) ==
    SubSeq(query, IndexOf(query, "\n                  :where\n                  ") + 1,
           Len(query))

\* the tokens of the modifiers of a query built with the options
ModifierTokens(options) == Join(Modifiers(options), " ")

\* the :in line of a main query without the modifiers that end it
InPart(query, options) ==
    SubSeq(InLine(query), 1, Len(InLine(query)) - Len(ModifierTokens(options)) - 1)

\* the :in line of a main query from its modifiers on
ModifierPart(query, clauses, options) ==
    SubSeq(InLine(query), Len(InClause(clauses, options.pageUid)) + 2,
           Len(InLine(query)))

\* " v1 v2 ..."
RECURSIVE SpacedText(_)
SpacedText(names) ==
    IF names = <<>> THEN "" ELSE " " \o Head(names) \o SpacedText(Tail(names))

Built == last.op = "build" /\ last.ok

\* C17: the arguments of the final query are the input values in order,
\* followed by the page identifier if and only if a page scope is supplied
\* (a non-empty pageUid: the empty string names no page); the variables
\* after :in $ are the input names in order followed by ?target-page-uid
\* under the same condition; so variables and arguments have the same
\* length and correspond position by position.
C17_ArgsMatchInputs ==
    Built =>
        LET scoped == Truthy(last.options.pageUid)
            inputs == last.clauses.inputs
            values == last.clauses.inputValues
            inVars == inputs \o (IF scoped THEN <<"?target-page-uid">> ELSE <<>>)
            args == last.datalog.args
        IN  /\ Text(InPart(last.datalog.query, last.options))
                 = ":in $" \o SpacedText(inVars)
            /\ Len(args) = Len(inVars)
            /\ Len(args) = Len(values) + (IF scoped THEN 1 ELSE 0)
            /\ \A i \in DOMAIN values : args[i] = NumberArg(values[i])
            /\ scoped => args[Len(args)] = StringArg(last.options.pageUid.val)
            /\ (~scoped /\ values = <<>>) => args = <<>>

\* a between and a tag within a page: two times and the page, in this order
C17_Witness ==
    /\ Built
    /\ last.ast = And(<<Tag(<<"a">>), Between(Today, Tomorrow)>>)
    /\ last.options.pageUid = Given("page-uid")
    /\ last.options.limit = Absent /\ last.options.offset = Absent
    /\ last.options.orderBy = Absent
    /\ Text(InLine(last.datalog.query))
         = ":in $ ?start-date-0 ?end-date-1 ?target-page-uid "
    /\ last.datalog.args =
         <<NumberArg(Time(DaysFromCivil(2026, 3, 31), 0)),
           NumberArg(Time(DaysFromCivil(2026, 4, 1), MsPerDay - 1)),
           StringArg("page-uid")>>

\* the base fragments of a main query and then the generated ones
BaseThenGenerated ==
    Text(WherePart(last.datalog.query)) =
        JoinText(<<"[?b :block/string ?block-str]", "[?b :block/uid ?block-uid]",
                   "[?b :block/page ?p]", "[?p :node/title ?page-title]">>
                 \o (IF Truthy(last.options.pageUid)
                     THEN <<"[?p :block/uid ?target-page-uid]">> ELSE <<>>)
                 \o [i \in DOMAIN last.clauses.where |-> Text(last.clauses.where[i])],
                 "\n                  ")
        \o "]"

\* the modifiers of the query built last, as tokens
BuiltModifiers == ModifierPart(last.datalog.query, last.clauses, last.options)

\* C18 as stated: :limit, :offset and :order stand in the query only when
\* the option is specified, :limit not for -1; a specified limit L other
\* than -1 gives ":limit L", a specified offset gives :offset, a specified
\* orderBy gives :order, no option gives no modifier; the four base
\* fragments come before the generated ones.
C18_ModifiersWhenSpecified ==
    Built =>
        LET o == last.options
            m == BuiltModifiers
            has(token) == \E i \in DOMAIN m : m[i] = token
        IN  /\ has(":limit ") <=> (o.limit.def /\ o.limit.val # -1)
            /\ (o.limit.def /\ o.limit.val # -1) =>
                  \E i \in DOMAIN m :
                      m[i] = ":limit " /\ m[i + 1] = ToString(o.limit.val)
            /\ has(":offset ") <=> o.offset.def
            /\ has(":order ") <=> o.orderBy.def
            /\ o = NoOptions => m = <<>>
            /\ BaseThenGenerated

\* C18 as the code has it: ":limit L" for a specified limit L other than
\* -1, ":offset N" for a specified offset N greater than 0, ":order o" for
\* a specified orderBy o other than the empty string, in this order with a
\* space between, and nothing else; the four base fragments come before the
\* generated ones.
C18_ModifiersWhenEffective ==
    Built =>
        LET o == last.options IN
        /\ Text(BuiltModifiers) =
             JoinText((IF o.limit.def /\ o.limit.val # -1
                       THEN <<":limit " \o ToString(o.limit.val)>> ELSE <<>>)
                      \o (IF o.offset.def /\ o.offset.val > 0
                          THEN <<":offset " \o ToString(o.offset.val)>> ELSE <<>>)
                      \o (IF o.orderBy.def /\ o.orderBy.val # ""
                          THEN <<":order " \o o.orderBy.val>> ELSE <<>>),
                      " ")
        /\ BaseThenGenerated

\* limit 50, offset 10 and an order: all three modifiers
C18_Witness ==
    /\ Built
    /\ last.ast = Tag(<<"a">>)
    /\ last.options = [limit |-> Given(50), offset |-> Given(10),
                       orderBy |-> Given("?block-uid desc"), pageUid |-> Absent]
    /\ Text(InLine(last.datalog.query))
         = ":in $ :limit 50 :offset 10 :order ?block-uid desc"

\* limit -1 with offset 0: specified, and no modifier in the query
C18_OffsetZero ==
    /\ Built
    /\ last.options = [limit |-> Given(-1), offset |-> Given(0),
                       orderBy |-> Absent, pageUid |-> Absent]
    /\ Text(InLine(last.datalog.query)) = ":in $ "

\* how many of the first n leaves are of the given types
RECURSIVE LeavesBefore(_, _, _)
LeavesBefore(leaves, n, types) ==
    IF n = 0 THEN 0
    ELSE LeavesBefore(leaves, n - 1, types)
         + (IF leaves[n].type \in types THEN 1 ELSE 0)

\* the binding variables of generate's fragments are those of the
\* tag and block-reference leaves of its AST, in traversal order
BindersOfLeaves ==
    /\ last.op = "generate" /\ last.ok
    /\ Len(Binders(Flatten(last.clauses.where))) = Len(RefLeaves(last.ast))

\* C27: the variable of a block reference is ?block-ref-N, N counted by a
\* counter of the block references alone, which tags do not advance:
\* {and: [[a]] ((u))} binds ?ref-0 and ?block-ref-0.
C27_BlockRefOwnCounter ==
    BindersOfLeaves =>
        LET b == Binders(Flatten(last.clauses.where))
            leaves == RefLeaves(last.ast)
        IN  \A k \in DOMAIN b :
               leaves[k].type = "block-ref" =>
                  b[k] = "?block-ref-"
                         \o ToString(LeavesBefore(leaves, k - 1, {"block-ref"}))

\* C27 as the generator has it: the variable of a block reference is
\* ?block-ref-N, N being the number of tags and block references generated
\* before it in the call; the prefix, not the number, keeps it apart from
\* the tags' ?ref-N.
C27_BlockRefSharedCounter ==
    BindersOfLeaves =>
        LET b == Binders(Flatten(last.clauses.where))
            leaves == RefLeaves(last.ast)
        IN  \A k \in DOMAIN b :
               leaves[k].type = "block-ref" =>
                  /\ b[k] = "?block-ref-"
                            \o ToString(LeavesBefore(leaves, k - 1, {"tag", "block-ref"}))
                  /\ \A j \in DOMAIN b : leaves[j].type = "tag" => b[j] # b[k]

\* {and: [[a]] ((u))} binds ?ref-0 and ?block-ref-1
C27_Witness ==
    /\ BindersOfLeaves
    /\ last.ast = And(<<Tag(<<"a">>), BlockRef(<<"u">>)>>)
    /\ Binders(Flatten(last.clauses.where)) = <<"?ref-0", "?block-ref-1">>

\* the two values of a between whose dates are both resolved at the clock
\* reading now
BetweenValuesAt(now) ==
    <<RoamDateToTimestamp(last.ast.startDate, now).time,
      AddMs(RoamDateToTimestamp(last.ast.endDate, now).time, MsPerDay - 1)>>

\* C26: the relative dates of one generate call are resolved against one
\* reading of the clock, and a between from today to today spans
\* 86,399,999 ms also when midnight passes during the call.
C26_OneClockReading ==
    BetweenGenerated =>
        /\ \E k \in 1..Len(last.clock) :
              last.clauses.inputValues = BetweenValuesAt(last.clock[k])
        /\ (last.ast.startDate = Today /\ last.ast.endDate = Today) =>
              last.clauses.inputValues[2]
                = AddMs(last.clauses.inputValues[1], MsPerDay - 1)

\* what holds of the two values: each date is resolved at the reading of
\* its own resolution, the start's first
C26_OneReadingPerDate ==
    BetweenGenerated =>
        last.clauses.inputValues =
            <<BetweenValuesAt(ClockAt(last.clock, 1))[1],
              BetweenValuesAt(ClockAt(last.clock, 2))[2]>>

\* today to today, the start resolved in the last millisecond of
\* 2026-01-31 and the end in the first of 2026-02-01: the two values are
\* two days less one millisecond apart
C26_AcrossMidnight ==
    /\ BetweenGenerated
    /\ last.ast.startDate = Today /\ last.ast.endDate = Today
    /\ last.clock = <<Time(DaysFromCivil(2026, 1, 31), MsPerDay - 1),
                      Time(DaysFromCivil(2026, 2, 1), 0)>>
    /\ last.clauses.inputValues =
         <<Time(DaysFromCivil(2026, 1, 31), 0),
           Time(DaysFromCivil(2026, 2, 1), MsPerDay - 1)>>

\* the variables an or fragment lists after or-join, and its branches
Rebound(fragment) == {fragment[i] : i \in 2..(IndexOf(fragment, "] ") - 1)}

Branches(fragment) == SubSeq(fragment, IndexOf(fragment, "] ") + 1, Len(fragment))

\* C25: in the fragment of an or node every variable that a branch uses
\* and that is bound outside the join is in the list after or-join: ?b,
\* ?block-str where a branch is a search, the input variables where a
\* branch is a between.
C25_OrJoinRebindsShared ==
    (Built /\ last.ast.type = "or") =>
        LET fragment == last.clauses.where[1]
            used(token) == token \in Range(Branches(fragment))
        IN  /\ fragment[1] = "(or-join ["
            /\ "?b" \in Rebound(fragment)
            /\ \A v \in Range(last.clauses.inputs) :
                  used(v) => v \in Rebound(fragment)
            /\ used("[(clojure.string/includes? ?block-str \"")
                  => "?block-str" \in Rebound(fragment)

\* what the list after or-join holds: the subject variable alone
C25_OrJoinRebindsSubject ==
    (Built /\ last.ast.type = "or") =>
        /\ last.clauses.where[1][1] = "(or-join ["
        /\ Rebound(last.clauses.where[1]) = {"?b"}

\* an or of two betweens: four input variables in the branches and in :in,
\* none in the list
C25_InputsNotRebound ==
    /\ Built
    /\ last.ast = Or(<<Between(Today, Tomorrow), Between(Today, Tomorrow)>>)
    /\ last.options = NoOptions
    /\ Rebound(last.clauses.where[1]) = {"?b"}
    /\ Range(last.clauses.inputs) \subseteq Range(Branches(last.clauses.where[1]))
    /\ Text(InLine(last.datalog.query))
         = ":in $ ?start-date-0 ?end-date-1 ?start-date-2 ?end-date-3 "

\* an or of a search and a tag: ?block-str in a branch, not in the list
C25_SearchNotRebound ==
    /\ Built
    /\ last.ast = Or(<<Search(<<"a">>), Tag(<<"a">>)>>)
    /\ Text(last.clauses.where[1])
         = "(or-join [?b] [(clojure.string/includes? ?block-str \"a\")] "
           \o "(and [?ref-0 :node/title \"a\"] [?b :block/refs ?ref-0]))"

-----------------------------------------------------------------------------
(* Properties of the executor *)

IsFailure(result, message) ==
    result = [success |-> FALSE, matches |-> <<>>, message |-> message]

\* C1: execute never raises: a parse error, a date error in generate, a
\* rejection of the main query, of a reference resolution or of the count
\* query all end the call with a result whose success is false, whose
\* matches are empty and whose message is that of the failure.
C1_ExecuteNeverRaises ==
    \A c \in DOMAIN calls :
        LET call == calls[c] IN
        /\ call.pc # "raised"
        /\ call.fault.def =>
            (call.pc = "returned" /\ IsFailure(call.result, call.fault.message))
        /\ (call.pc # "idle" /\ ~Parse(call.queryBlock).ok) =>
            /\ call.fault.def /\ call.fault.step = "parse"
            /\ call.fault.message = Parse(call.queryBlock).msg
        /\ (call.ast # NoAst /\ ~call.clauses.ok) =>
            /\ call.fault.def /\ call.fault.step = "generate"
            /\ call.fault.message = call.clauses.message
        /\ (\E i \in DOMAIN call.refs : call.refs[i].state = "rejected") =>
            call.fault.def

\* the count query was rejected after both rows were resolved
C1_Witness ==
    \E c \in DOMAIN calls :
        /\ calls[c].pc = "returned"
        /\ calls[c].fault.def /\ calls[c].fault.step = "count"
        /\ Len(calls[c].rawResults) = 2
        /\ calls[c].result.message = "timeout"

\* C2: a result of execute is all-or-nothing: success with one match per row
\* of the main query, each with the content resolveRefs answered, and with
\* total_count and query; or failure with no match, no total_count and no
\* query, also when rows were returned and resolved before the failure.
C2_AllOrNothing ==
    \A c \in DOMAIN calls :
        LET call == calls[c] IN
        /\ call.pc # "returned" => call.result = NoResult
        /\ call.pc = "returned" =>
            \/ /\ call.result.success
               /\ DOMAIN call.result =
                    {"success", "matches", "message", "total_count", "query"}
               /\ ~call.fault.def
               /\ Len(call.result.matches) = Len(call.rawResults)
               /\ \A i \in DOMAIN call.rawResults :
                    /\ call.refs[i].state = "resolved"
                    /\ call.refs[i].content \in Resolutions(call.rawResults[i][2])
                    /\ call.result.matches[i] =
                         [block_uid |-> call.rawResults[i][1],
                          content |-> call.refs[i].content,
                          page_title |-> call.rawResults[i][3]]
            \/ /\ ~call.result.success
               /\ DOMAIN call.result = {"success", "matches", "message"}
               /\ call.result.matches = <<>>

\* of two rows one was resolved and the other rejected: no match is returned
C2_Witness ==
    \E c \in DOMAIN calls :
        /\ calls[c].pc = "returned"
        /\ ~calls[c].result.success
        /\ Len(calls[c].rawResults) = 2
        /\ calls[c].refs[1].state = "resolved"
        /\ calls[c].refs[2].state = "rejected"
        /\ calls[c].result.matches = <<>>

\* a text that is no relative expression and that neither date parse accepts
NoDate(dateStr) ==
    /\ ~ParseRelativeDate(Trim(ToLowerCase(dateStr)), Noon).def
    /\ ~DateParse(StripOrdinal(dateStr)).def
    /\ ~DateParse(dateStr).def

\* C16: a between with a date text that is no date passes the parser, which
\* returns its AST, and fails in generate with an Error that is no
\* QueryParseError and says the date cannot be parsed; execute returns the
\* failure result with that message.
C16_BadDateFailsInGenerate ==
    \A c \in DOMAIN calls :
        LET call == calls[c] IN
        (/\ call.pc # "idle"
         /\ Parse(call.queryBlock).ok
         /\ call.ast.type = "between"
         /\ NoDate(call.ast.startDate) \/ NoDate(call.ast.endDate)) =>
            LET text == IF NoDate(call.ast.startDate) THEN call.ast.startDate
                        ELSE call.ast.endDate
            IN  /\ ~call.clauses.ok
                /\ call.clauses.name = "Error"
                /\ call.clauses.name # "QueryParseError"
                /\ call.clauses.message = "Cannot parse date: " \o Str(text)
                /\ call.fault = Fault("generate", call.clauses.message)
                /\ call.pc = "returned"
                /\ call.result = [success |-> FALSE, matches |-> <<>>,
                                  message |-> call.clauses.message]

\* {between: [[a]] [[today]]} was parsed and execute returned the failure
C16_Witness ==
    \E c \in DOMAIN calls :
        /\ calls[c].queryBlock = SrcBadDate
        /\ calls[c].ast = Between(<<"a">>, Today)
        /\ calls[c].pc = "returned"
        /\ calls[c].result = [success |-> FALSE, matches |-> <<>>,
                              message |-> "Cannot parse date: a"]

\* the fragments that a separator token parts
RECURSIVE Split(_, _)
Split(tokens, sep) ==
    IF \A i \in DOMAIN tokens : tokens[i] # sep THEN <<tokens>>
    ELSE <<SubSeq(tokens, 1, IndexOf(tokens, sep) - 1)>>
         \o Split(SubSeq(tokens, IndexOf(tokens, sep) + 1, Len(tokens)), sep)

\* the fragments after :where of a main query and of a count query, without
\* the bracket that closes the query
MainFragments(query) ==
    Split(SubSeq(WherePart(query), 1, Len(WherePart(query)) - 1),
          "\n                  ")

CountFragments(query) ==
    LET from == IndexOf(query, "\n                    :where\n                    ")
    IN  Split(SubSeq(query, from + 1, Len(query) - 1), "\n                    ")

\* the line of a count query that starts with :in
CountInLine(query) ==
    SubSeq(query, IndexOf(query, ":in $"),
           IndexOf(query, "\n                    :where\n                    ") - 1)

WithoutAt(seq, k) == SubSeq(seq, 1, k - 1) \o SubSeq(seq, k + 1, Len(seq))

\* C19: the count query of a call has the generated fragments of its main
\* query in the same order, the same :in variables and the same arguments;
\* it finds (count ?b) instead of the projection, lacks the page-title base
\* fragment, and has no :limit, :offset or :order.
C19_CountMatchesMain ==
    \A c \in DOMAIN calls :
        LET call == calls[c]
            main == call.datalog.query
            count == call.countQuery.query
        IN  call.countQuery # NoDatalog =>
              /\ call.countQuery.args = call.datalog.args
              /\ CountInLine(count) = InPart(main, ExecuteOptions(call.options))
              /\ MainFragments(main)[4] = <<"[?p :node/title ?page-title]">>
              /\ CountFragments(count) = WithoutAt(MainFragments(main), 4)
              /\ LET n == Len(call.clauses.where)
                     k == Len(CountFragments(count))
                 IN  SubSeq(CountFragments(count), k - n + 1, k) = call.clauses.where
              /\ count[1] = "[:find (count ?b)\n                    "
              /\ main[1] = "[:find " /\ main[2] = "?block-uid"
              /\ count[2] = ":in $"
              /\ \A i \in DOMAIN count :
                    count[i] \notin {":limit ", ":offset ", ":order "}
              /\ \E i \in DOMAIN main : main[i] = ":limit "

\* a between within a page with limit 1: both queries take the two times
\* and the page
C19_Witness ==
    \E c \in DOMAIN calls :
        /\ calls[c].countQuery # NoDatalog
        /\ calls[c].queryBlock = SrcBetween
        /\ calls[c].options.pageUid = Given("page-uid")
        /\ Text(CountInLine(calls[c].countQuery.query))
             = ":in $ ?start-date-0 ?end-date-1 ?target-page-uid"
        /\ Len(calls[c].countQuery.args) = 3
        /\ Len(CountFragments(calls[c].countQuery.query)) = 7
        /\ Len(MainFragments(calls[c].datalog.query)) = 8

\* C20: execute submits the count query if and only if the limit is given
\* and not -1; then total_count is the number in the first row the count
\* query answers with, 0 when it answers with no row; otherwise the main
\* query is the only one submitted and total_count is the number of matches.
C20_CountQueryIffBounded ==
    \A c \in DOMAIN calls :
        LET call == calls[c]
            bounded == call.options.limit.def /\ call.options.limit.val # -1
            counted == call.countQuery # NoDatalog
        IN  /\ counted => bounded
            /\ call.pc = "count" => counted
            /\ call.countResults.def => counted
            /\ (call.pc = "returned" /\ call.result.success) =>
                 /\ call.datalog # NoDatalog
                 /\ counted <=> bounded
                 /\ bounded =>
                      /\ call.countResults.def
                      /\ call.result.total_count =
                           (IF call.countResults.val \in {<<>>, << <<>> >>} THEN 0
                            ELSE call.countResults.val[1][1])
                 /\ ~bounded =>
                      /\ ~call.countResults.def
                      /\ call.result.total_count = Len(call.result.matches)

\* limit 1: one match returned and the count query answered 3
C20_Witness ==
    \E c \in DOMAIN calls :
        /\ calls[c].pc = "returned" /\ calls[c].result.success
        /\ calls[c].options.limit = Given(1)
        /\ calls[c].countResults = Given(<< <<3>> >>)
        /\ Len(calls[c].result.matches) = 1
        /\ calls[c].result.total_count = 3

\* limit -1: no count query, total_count is the number of matches
C20_WitnessUnbounded ==
    \E c \in DOMAIN calls :
        /\ calls[c].pc = "returned" /\ calls[c].result.success
        /\ calls[c].options.limit = Given(-1)
        /\ calls[c].countQuery = NoDatalog
        /\ Len(calls[c].result.matches) = 2
        /\ calls[c].result.total_count = 2

-----------------------------------------------------------------------------
(* Properties of isQueryBlock and extractQueryBlocks *)

Detected == last.op = "detected"

\* C21: isQueryBlock(text) is true if and only if the text after its
\* leading white space begins with the prefix {{[[query]]: exactly as
\* written, the prefix extractQueryBlocks searches for and the parser strips.
C21_IsQueryBlockIffExactPrefix ==
    Detected =>
        (last.isQueryBlock <=> StartsWith(TrimStart(last.text), WrapperPrefix))

\* isQueryBlock is true of the texts whose prefix is the written one up to
\* the case of its letters
C21_IsQueryBlockIffPrefixInAnyCase ==
    Detected =>
        (last.isQueryBlock <=>
            StartsWith(ToLowerCase(TrimStart(last.text)), WrapperPrefix))

\* {{[[Query]]: [[a]]}} counts as a query block; extractQueryBlocks finds no
\* block in it and the parser takes the whole text as the expression
C21_OtherCase ==
    /\ Detected
    /\ last.text = <<"{", "{", "[", "[", "Q", "u", "e", "r", "y", "]", "]", ":">>
                   \o <<" ">> \o TagA \o <<"}", "}">>
    /\ last.isQueryBlock
    /\ last.blocks = <<>>
    /\ last.expression = last.text

Extracted == last.op = "extracted"

\* the length of the first n parts of the text together
RECURSIVE LengthOfParts(_, _)
LengthOfParts(parts, n) ==
    IF n = 0 THEN 0 ELSE LengthOfParts(parts, n - 1) + Len(parts[n])

\* C22: of a text of brace-free prose around k wrapper blocks with balanced
\* braces, extractQueryBlocks returns these k blocks in their order, each
\* from its {{[[query]]: to the brace that closes it; the matches do not
\* overlap and each is a query block for isQueryBlock.
C22_ExtractsBalancedBlocks ==
    (Extracted /\ last.kind = "blocks") =>
        LET k == Len(last.parts) \div 2 IN
        /\ last.matches = [i \in 1..k |-> last.parts[2 * i]]
        /\ last.spans = [i \in 1..k |->
                            <<LengthOfParts(last.parts, 2 * i - 1),
                              LengthOfParts(last.parts, 2 * i)>>]
        /\ \A i \in 1..k :
              /\ IsQueryBlock(last.matches[i])
              /\ i < k => last.spans[i][2] <= last.spans[i + 1][1]

\* two blocks, the second with nested braces, between prose
C22_Witness ==
    /\ Extracted
    /\ last.text = <<"a", " ">> \o WrapperPrefix \o <<" ", "a", "}", "}", "a", " ">>
                   \o WrapperPrefix
                   \o <<"{", "{", "a", "}", "a", "}", "}", "}">>
    /\ last.matches = <<WrapperPrefix \o <<" ", "a", "}", "}">>,
                        WrapperPrefix \o <<"{", "{", "a", "}", "a", "}", "}", "}">> >>
    /\ last.spans = << <<2, 18>>, <<20, 40>> >>

\* a step of extractQueryBlocks moves no position back, and a round of the
\* outer loop moves startIdx on
ScanMovesForward ==
    /\ last'.pos >= last.pos
    /\ last'.startIdx >= last.startIdx
    /\ (last.op = "inner" /\ last'.op = "outer") => last'.startIdx > last.startIdx
    /\ last'.pos <= Len(last.text)

\* a round that ends with the braces still open pushes nothing and ends the
\* scan: the next test of the outer loop returns
UnclosedEndsScan ==
    /\ (last.op = "inner" /\ last'.op = "outer" /\ last.depth > 0) =>
          /\ last'.matches = last.matches
          /\ last'.startIdx = Len(last.text)
    /\ (last.op = "outer" /\ last.startIdx >= Len(last.text)) =>
          /\ last'.op = "extracted"
          /\ last'.matches = last.matches

\* no match lies after an occurrence of the prefix that stayed open
NoMatchAfterUnclosed ==
    (Extracted /\ last.foundIdx # 0 - 1 /\ last.depth > 0) =>
        /\ \A i \in DOMAIN last.spans : last.spans[i][2] <= last.foundIdx
        /\ \A i \in DOMAIN last.matches :
              last.matches[i] # Slice(last.text, last.foundIdx, Len(last.text))

\* C29: extractQueryBlocks terminates and its positions only move forward;
\* for an occurrence of the prefix whose braces are not closed before the
\* end of the text no block is returned and the scan ends there, so that no
\* block that starts after it is returned.
C29_ExtractTerminates ==
    /\ <>Extracted
    /\ [][ScanMovesForward /\ UnclosedEndsScan]_vars
    /\ []NoMatchAfterUnclosed

\* a prefix left open before a block that is balanced on its own: nothing
\* is returned
C29_Witness ==
    /\ Extracted
    /\ last.text = WrapperPrefix \o WrapperPrefix \o <<"}", "}">>
    /\ last.foundIdx = 0 /\ last.depth = 2
    /\ last.matches = <<>>
    /\ ExtractQueryBlocks(WrapperPrefix \o <<"}", "}">>)
         = <<WrapperPrefix \o <<"}", "}">> >>

\* the calls of resolveRefs for the rows, in row order
ResolveCalls(rows) == [i \in DOMAIN rows |-> Invoked("resolveRefs", rows[i][2])]

\* the external calls of a call of execute are in pipeline order
PipelineOrder(call) ==
    /\ \/ call.log = <<>>
       \/ call.log = <<Invoked("q", "query")>>
       \/ call.log = <<Invoked("q", "query")>> \o ResolveCalls(call.rawResults)
       \/ call.log = <<Invoked("q", "query")>> \o ResolveCalls(call.rawResults)
                     \o <<Invoked("q", "countQuery")>>
    /\ (call.fault.def /\ call.fault.step \in {"parse", "generate"}) =>
          call.log = <<>>
    /\ call.pc = "query" => call.log = <<Invoked("q", "query")>>
    /\ Len(call.log) > 1 + Len(call.rawResults) =>
          \A i \in DOMAIN call.refs : call.refs[i].state = "resolved"

\* a step that makes external calls makes them at the right time: the main
\* query when execute starts, the resolutions in the step in which the main
\* query answers, the count query in a step before which every resolution
\* has answered
PipelineStep(before, after) ==
    after.log # before.log =>
        \/ before.pc = "idle" /\ after.log = <<Invoked("q", "query")>>
        \/ /\ before.pc = "query" /\ after.pc = "resolve"
           /\ after.log = before.log \o ResolveCalls(after.rawResults)
        \/ /\ before.pc = "resolve" /\ after.pc = "count"
           /\ \A i \in DOMAIN before.refs : before.refs[i].state = "resolved"
           /\ after.log = Append(before.log, Invoked("q", "countQuery"))
        \/ after.pc = "idle" /\ after.log = <<>>

\* C24: the external calls of execute are made in pipeline order: the main
\* query once; after it answered, one resolution for every row; after all
\* of them answered, at most one count query; and none at all when parsing
\* or clause generation fails.
C24_PipelineOrder ==
    /\ [](\A c \in DOMAIN calls : PipelineOrder(calls[c]))
    /\ [][\A c \in DOMAIN calls : PipelineStep(calls[c], calls'[c])]_vars

\* two rows and a bounded limit: the main query, two resolutions, the count
\* query
C24_Witness ==
    \E c \in DOMAIN calls :
        /\ calls[c].pc = "returned" /\ calls[c].result.success
        /\ Len(calls[c].rawResults) = 2
        /\ calls[c].log = <<Invoked("q", "query"),
                            Invoked("resolveRefs", calls[c].rawResults[1][2]),
                            Invoked("resolveRefs", calls[c].rawResults[2][2]),
                            Invoked("q", "countQuery")>>

\* a date that is no date: execute returns without any external call
C24_WitnessNoCall ==
    \E c \in DOMAIN calls :
        /\ calls[c].pc = "returned"
        /\ calls[c].fault.def /\ calls[c].fault.step = "generate"
        /\ calls[c].log = <<>>

\* C28: whatever the order in which the resolutions of the rows answer, the
\* i-th match is made of the i-th row of the main query's answer: its uid,
\* the content resolveRefs answered for it, its page title; there is one
\* match for every row.
C28_MatchesInRowOrder ==
    \A c \in DOMAIN calls :
        LET call == calls[c] IN
        (call.pc = "returned" /\ call.result.success) =>
            /\ Len(call.result.matches) = Len(call.rawResults)
            /\ Range(call.answered) = DOMAIN call.rawResults
            /\ Len(call.answered) = Len(call.rawResults)
            /\ \A i \in DOMAIN call.rawResults :
                  /\ call.result.matches[i].block_uid = call.rawResults[i][1]
                  /\ call.result.matches[i].page_title = call.rawResults[i][3]
                  /\ call.result.matches[i].content = call.refs[i].content
                  /\ call.refs[i].content \in Resolutions(call.rawResults[i][2])

\* the second row's resolution answered first; the matches are in row order
C28_Witness ==
    \E c \in DOMAIN calls :
        /\ calls[c].pc = "returned" /\ calls[c].result.success
        /\ calls[c].answered = <<2, 1>>
        /\ calls[c].rawResults = << <<"uid1", "see ((uid2))", "Page A">>,
                                    <<"uid2", "plain", "Page B">> >>
        /\ calls[c].result.matches =
             << [block_uid |-> "uid1", content |-> "see ((uid2)) [expanded]",
                 page_title |-> "Page A"],
                [block_uid |-> "uid2", content |-> "plain",
                 page_title |-> "Page B"] >>

=============================================================================
